---------------------------- MODULE Spec2Model ----------------------------
(***************************************************************************)
(* A model of the type-tree utilities of charon (src/charon/src/           *)
(* types_utils.rs): substitution, region erasure, the structural queries   *)
(* and the unification engine TySubst; of the variable bookkeeping of the  *)
(* body translation context (translate_ctx.rs); and of the simplification  *)
(* of checked binary operations (simplify_ops.rs).                         *)
(*                                                                         *)
(* Trees are TLA+ values.  A region is a tuple <<"Static">>, <<"Var", i>>, *)
(* <<"Erased">> or <<"Unknown">>; a ConstGeneric is <<"Global", g>>,        *)
(* <<"Var", c>> or <<"Value", x>>; a TypeId is <<"Tuple">>, <<"Adt", i>>    *)
(* or <<"Assumed", name>>; a Ty is a record whose field tag names the      *)
(* variant.  A panic (a failed assert!, an unwrap of None) is the outcome  *)
(* [tag |-> "Panic"].                                                      *)
(***************************************************************************)
EXTENDS Integers, Sequences, FiniteSets, TLC

VARIABLES
    op,     \* the operation applied last ("init": none yet)
    ty,     \* the input type tree
    src_ty, \* unification: the source-side type under construction
    tgt_ty, \* unification: the target-side type under construction
    depth,  \* how many times the input tree was wrapped
    arg,    \* the other inputs of the operation (maps, region-id set)
    out,    \* the outcome of the operation
    st,     \* simplification: the input statement
    ctx     \* translation: the body translation context

vars == <<op, ty, src_ty, tgt_ty, depth, arg, out, st, ctx>>

---------------------------------------------------------------------------
(* Bounds of the model. *)

MaxDepth == 2
MaxLen == 2
NumTypeVars == 2
NumRegionVars == 1

---------------------------------------------------------------------------
(* Constructors of the data model. *)

Static == <<"Static">>
Erased == <<"Erased">>
Unknown == <<"Unknown">>
RVar(i) == <<"Var", i>>

CGGlobal(g) == <<"Global", g>>
CGVar(c) == <<"Var", c>>
CGValue(x) == <<"Value", x>>

TupleId == <<"Tuple">>
AdtId(i) == <<"Adt", i>>
Assumed(a) == <<"Assumed", a>>

GenericArgs_new(regions, types, const_generics, trait_refs) ==
    [regions |-> regions, types |-> types,
     const_generics |-> const_generics, trait_refs |-> trait_refs]
GenericArgs_empty == GenericArgs_new(<<>>, <<>>, <<>>, <<>>)
GenericArgs_new_from_types(types) == GenericArgs_new(<<>>, types, <<>>, <<>>)

TraitDeclRef(trait_id, generics) == [trait_id |-> trait_id, generics |-> generics]
TraitRef(trait_id, generics, trait_decl_ref) ==
    [trait_id |-> trait_id, generics |-> generics, trait_decl_ref |-> trait_decl_ref]

Adt(id, args) == [tag |-> "Adt", id |-> id, args |-> args]
TypeVar(v) == [tag |-> "TypeVar", v |-> v]
Literal(lit) == [tag |-> "Literal", lit |-> lit]
Never == [tag |-> "Never"]
Ref(r, t, kind) == [tag |-> "Ref", r |-> r, ty |-> t, kind |-> kind]
RawPtr(t, kind) == [tag |-> "RawPtr", ty |-> t, kind |-> kind]
TraitType(tref, args, name) == [tag |-> "TraitType", tref |-> tref, args |-> args, name |-> name]
Arrow(inputs, output) == [tag |-> "Arrow", inputs |-> inputs, output |-> output]

(* Outcomes of an operation: a value, or a panic. *)
Ok(x) == [tag |-> "Ok", val |-> x]
Panic == [tag |-> "Panic"]

---------------------------------------------------------------------------
(* Substitution. The three maps are functions: rsubst over regions,       *)
(* tsubst over type-variable ids, cgsubst over const-generic ids.         *)

RECURSIVE Ty_substitute(_, _, _, _)
RECURSIVE GenericArgs_substitute(_, _, _, _)
RECURSIVE TraitRef_substitute(_, _, _, _)

ConstGeneric_substitute(cg, cgsubst) ==
    IF cg[1] = "Var" THEN cgsubst[cg[2]] ELSE cg

(* Faulty variant: the static regions are dropped from the list. *)
substitute_regions_without_static(regions, rsubst) ==
    LET kept == SelectSeq(regions, LAMBDA r : r # Static)
    IN  [i \in 1..Len(kept) |-> rsubst[kept[i]]]

substitute_regions(regions, rsubst) ==
    [i \in 1..Len(regions) |-> rsubst[regions[i]]]

TraitDeclRef_substitute(tr, rsubst, tsubst, cgsubst) ==
    [trait_id |-> tr.trait_id,
     generics |-> GenericArgs_substitute(tr.generics, rsubst, tsubst, cgsubst)]

TraitRef_substitute(tr, rsubst, tsubst, cgsubst) ==
    [trait_id |-> tr.trait_id,
     generics |-> GenericArgs_substitute(tr.generics, rsubst, tsubst, cgsubst),
     trait_decl_ref |-> TraitDeclRef_substitute(tr.trait_decl_ref, rsubst, tsubst, cgsubst)]

(* Faulty variant: the trait references are dropped. *)
GenericArgs_substitute_no_trait_refs(g, rsubst, tsubst, cgsubst) ==
    [regions |-> substitute_regions(g.regions, rsubst),
     types |-> [i \in 1..Len(g.types) |->
                  Ty_substitute(g.types[i], rsubst, tsubst, cgsubst)],
     const_generics |-> [i \in 1..Len(g.const_generics) |->
                  ConstGeneric_substitute(g.const_generics[i], cgsubst)],
     trait_refs |-> <<>>]

GenericArgs_substitute(g, rsubst, tsubst, cgsubst) ==
    [regions |-> substitute_regions(g.regions, rsubst),
     types |-> [i \in 1..Len(g.types) |->
                  Ty_substitute(g.types[i], rsubst, tsubst, cgsubst)],
     const_generics |-> [i \in 1..Len(g.const_generics) |->
                  ConstGeneric_substitute(g.const_generics[i], cgsubst)],
     trait_refs |-> [i \in 1..Len(g.trait_refs) |->
                  TraitRef_substitute(g.trait_refs[i], rsubst, tsubst, cgsubst)]]

Ty_substitute(t, rsubst, tsubst, cgsubst) ==
    CASE t.tag = "Adt" ->
           Adt(t.id, GenericArgs_substitute(t.args, rsubst, tsubst, cgsubst))
      [] t.tag = "TypeVar" -> tsubst[t.v]
      [] t.tag = "Literal" -> Literal(t.lit)
      [] t.tag = "Never" -> Never
      [] t.tag = "Ref" ->
           Ref(rsubst[t.r], Ty_substitute(t.ty, rsubst, tsubst, cgsubst), t.kind)
      [] t.tag = "RawPtr" ->
           RawPtr(Ty_substitute(t.ty, rsubst, tsubst, cgsubst), t.kind)
      [] t.tag = "TraitType" ->
           TraitType(TraitRef_substitute(t.tref, rsubst, tsubst, cgsubst),
                     GenericArgs_substitute(t.args, rsubst, tsubst, cgsubst),
                     t.name)
      [] t.tag = "Arrow" ->
           Arrow([i \in 1..Len(t.inputs) |->
                     Ty_substitute(t.inputs[i], rsubst, tsubst, cgsubst)],
                 Ty_substitute(t.output, rsubst, tsubst, cgsubst))

---------------------------------------------------------------------------
(* The identifiers and regions of the model's universe. *)

TypeVarIds == 0..(NumTypeVars - 1)
RegionIds == 0..(NumRegionVars - 1)
ConstGenericVarIds == 0..(NumTypeVars - 1)
RegionSet == {Static, Erased, Unknown} \cup {RVar(i) : i \in RegionIds}

(* The closures of substitute_types and erase_regions: the identity on
   regions, tid to Ty::TypeVar tid, cgid to ConstGeneric::Var cgid, and the
   constant Region::Erased. *)
IdRegion == [r \in RegionSet |-> r]
IdTypeVar == [v \in TypeVarIds |-> TypeVar(v)]
IdConstGeneric == [c \in ConstGenericVarIds |-> CGVar(c)]
EraseRegion == [r \in RegionSet |-> Erased]

(* Faulty variant: an erased region is not left erased. *)
erase_regions_unstable(t) ==
    Ty_substitute(t, [r \in RegionSet |-> IF r = Erased THEN Unknown ELSE Erased],
                  IdTypeVar, IdConstGeneric)

PanicRegion == <<"Panic">>
PanicConstGeneric == <<"Panic">>

(* The closures that look a key up in a HashMap and unwrap: a missing key
   panics. *)
Region_substitute(rsubst) ==
    [r \in RegionSet |-> IF r \in DOMAIN rsubst THEN rsubst[r] ELSE PanicRegion]
TypeSubst_get_unwrap(subst) ==
    [v \in TypeVarIds |-> IF v \in DOMAIN subst THEN subst[v] ELSE Panic]
ConstGenericSubst_get_unwrap(cgsubst) ==
    [c \in ConstGenericVarIds |->
        IF c \in DOMAIN cgsubst THEN cgsubst[c] ELSE PanicConstGeneric]

erase_regions(t) == Ty_substitute(t, EraseRegion, IdTypeVar, IdConstGeneric)

---------------------------------------------------------------------------
(* Structural queries. *)

Region_contains_var(r, rset) == r[1] = "Var" /\ r[2] \in rset

RECURSIVE contains_region_var(_, _)
contains_region_var(t, rset) ==
    CASE t.tag = "TypeVar" -> FALSE
      [] t.tag \in {"Literal", "Never"} -> FALSE
      [] t.tag = "Ref" ->
           Region_contains_var(t.r, rset) \/ contains_region_var(t.ty, rset)
      [] t.tag = "RawPtr" -> contains_region_var(t.ty, rset)
      [] t.tag \in {"TraitType", "Adt"} ->
           \E i \in 1..Len(t.args.regions) :
               \/ Region_contains_var(t.args.regions[i], rset)
               \/ \E j \in 1..Len(t.args.types) :
                      contains_region_var(t.args.types[j], rset)
      [] t.tag = "Arrow" ->
           \/ \E i \in 1..Len(t.inputs) : contains_region_var(t.inputs[i], rset)
           \/ contains_region_var(t.output, rset)

RECURSIVE contains_variables(_)

(* Faulty variant: a Ref counts only for what its pointee holds. *)
contains_variables_ref_pointee(t) ==
    CASE t.tag = "TypeVar" -> TRUE
      [] t.tag \in {"Literal", "Never"} -> FALSE
      [] t.tag \in {"Ref", "RawPtr"} -> contains_variables(t.ty)
      [] t.tag \in {"TraitType", "Adt"} ->
           \/ t.args.regions # <<>>
           \/ \E i \in 1..Len(t.args.types) : contains_variables(t.args.types[i])
      [] t.tag = "Arrow" ->
           \/ \E i \in 1..Len(t.inputs) : contains_variables(t.inputs[i])
           \/ contains_variables(t.output)

contains_variables(t) ==
    CASE t.tag = "TypeVar" -> TRUE
      [] t.tag \in {"Literal", "Never"} -> FALSE
      [] t.tag = "Ref" -> TRUE
      [] t.tag = "RawPtr" -> contains_variables(t.ty)
      [] t.tag \in {"TraitType", "Adt"} ->
           \/ t.args.regions # <<>>
           \/ \E i \in 1..Len(t.args.types) : contains_variables(t.args.types[i])
      [] t.tag = "Arrow" ->
           \/ \E i \in 1..Len(t.inputs) : contains_variables(t.inputs[i])
           \/ contains_variables(t.output)

(* Faulty variant: every well-formed tuple is taken for the unit type. *)
is_unit_any_tuple(t) ==
    IF t.tag = "Adt" /\ t.id = TupleId
    THEN IF t.args.regions # <<>> THEN Panic
         ELSE IF t.args.const_generics # <<>> THEN Panic
         ELSE Ok(TRUE)
    ELSE Ok(FALSE)

(* is_unit: the two assert! of the tuple case panic. *)
is_unit(t) ==
    IF t.tag = "Adt" /\ t.id = TupleId
    THEN IF t.args.regions # <<>> THEN Panic
         ELSE IF t.args.const_generics # <<>> THEN Panic
         ELSE Ok(t.args.types = <<>>)
    ELSE Ok(FALSE)

mk_unit == Adt(TupleId, GenericArgs_empty)

---------------------------------------------------------------------------
(* TySubst: the unification engine.  A HashMap is a function; insert      *)
(* overwrites the entry and tells whether the key was absent.  Each unify_ *)
(* operator returns [ok, s]: whether it returned Ok(()), and the TySubst   *)
(* it leaves behind.                                                       *)

TySubst_new ==
    [ignore_regions |-> FALSE,
     regions_map |-> (Static :> Static) @@ (Erased :> Erased),
     type_vars_map |-> <<>>,
     const_generics_map |-> <<>>]

check_ok_return(x, s) == [ok |-> x, s |-> s]

unify_regions(s, src, tgt) ==
    IF src \notin DOMAIN s.regions_map
    THEN check_ok_return(TRUE, [s EXCEPT !.regions_map = (src :> tgt) @@ @])
    ELSE check_ok_return(s.regions_map[src] = tgt, s)

(* Faulty variant: two literal values always unify. *)
unify_const_generics_any_value(s, src, tgt) ==
    IF src[1] = "Var"
    THEN check_ok_return(src[2] \notin DOMAIN s.const_generics_map,
                         [s EXCEPT !.const_generics_map = (src[2] :> tgt) @@ @])
    ELSE CASE src[1] = "Global" /\ tgt[1] = "Global" -> check_ok_return(src[2] = tgt[2], s)
           [] src[1] = "Value" /\ tgt[1] = "Value" -> check_ok_return(TRUE, s)
           [] OTHER -> check_ok_return(FALSE, s)

(* Faulty variant: a target variable unifies with any source. *)
unify_const_generics_target_var(s, src, tgt) ==
    IF src[1] = "Var"
    THEN check_ok_return(src[2] \notin DOMAIN s.const_generics_map,
                         [s EXCEPT !.const_generics_map = (src[2] :> tgt) @@ @])
    ELSE CASE src[1] = "Global" /\ tgt[1] = "Global" -> check_ok_return(src[2] = tgt[2], s)
           [] src[1] = "Value" /\ tgt[1] = "Value" -> check_ok_return(src[2] = tgt[2], s)
           [] OTHER -> check_ok_return(tgt[1] = "Var", s)

unify_const_generics(s, src, tgt) ==
    IF src[1] = "Var"
    THEN check_ok_return(src[2] \notin DOMAIN s.const_generics_map,
                         [s EXCEPT !.const_generics_map = (src[2] :> tgt) @@ @])
    ELSE CASE src[1] = "Global" /\ tgt[1] = "Global" -> check_ok_return(src[2] = tgt[2], s)
           [] src[1] = "Value" /\ tgt[1] = "Value" -> check_ok_return(src[2] = tgt[2], s)
           [] OTHER -> check_ok_return(FALSE, s)

(* The for loops of the _lists functions, from index i on. *)
RECURSIVE unify_regions_from(_, _, _, _)
unify_regions_from(s, src, tgt, i) ==
    IF i > Len(src) THEN check_ok_return(TRUE, s)
    ELSE LET r == unify_regions(s, src[i], tgt[i])
         IN IF r.ok THEN unify_regions_from(r.s, src, tgt, i + 1) ELSE r

unify_regions_lists(s, src, tgt) ==
    IF Len(src) # Len(tgt) THEN check_ok_return(FALSE, s)
    ELSE unify_regions_from(s, src, tgt, 1)

RECURSIVE unify_const_generics_from(_, _, _, _)
unify_const_generics_from(s, src, tgt, i) ==
    IF i > Len(src) THEN check_ok_return(TRUE, s)
    ELSE LET r == unify_const_generics(s, src[i], tgt[i])
         IN IF r.ok THEN unify_const_generics_from(r.s, src, tgt, i + 1) ELSE r

unify_const_generics_lists(s, src, tgt) ==
    IF Len(src) # Len(tgt) THEN check_ok_return(FALSE, s)
    ELSE unify_const_generics_from(s, src, tgt, 1)

RECURSIVE unify_types(_, _, _)
RECURSIVE unify_types_from(_, _, _, _)
RECURSIVE unify_args(_, _, _)

(* Faulty variant: a variable that is already bound is bound again. *)
bind_type_var_again(s, v, tgt) ==
    check_ok_return(TRUE, [s EXCEPT !.type_vars_map = (v :> tgt) @@ @])

(* Faulty variant: binding a variable again to the type it is bound to succeeds. *)
bind_type_var_consistent(s, v, tgt) ==
    check_ok_return(v \notin DOMAIN s.type_vars_map \/ s.type_vars_map[v] = tgt,
                    [s EXCEPT !.type_vars_map = (v :> tgt) @@ @])

(* Faulty variant: the variable is bound to the target without its regions. *)
bind_type_var_erased(s, v, tgt) ==
    check_ok_return(v \notin DOMAIN s.type_vars_map,
                    [s EXCEPT !.type_vars_map = (v :> erase_regions(tgt)) @@ @])

(* The source is the type variable v: insert, and fail if v was bound. *)
bind_type_var(s, v, tgt) ==
    check_ok_return(v \notin DOMAIN s.type_vars_map,
                    [s EXCEPT !.type_vars_map = (v :> tgt) @@ @])

unify_types_from(s, src, tgt, i) ==
    IF i > Len(src) THEN check_ok_return(TRUE, s)
    ELSE LET r == unify_types(s, src[i], tgt[i])
         IN IF r.ok THEN unify_types_from(r.s, src, tgt, i + 1) ELSE r

(* Faulty variant: the lengths are not compared; the loop stops with the shorter
   list. *)
unify_types_lists_zip(s, src, tgt) ==
    unify_types_from(s, SubSeq(src, 1, IF Len(src) < Len(tgt) THEN Len(src) ELSE Len(tgt)),
                     tgt, 1)

unify_types_lists(s, src, tgt) ==
    IF Len(src) # Len(tgt) THEN check_ok_return(FALSE, s)
    ELSE unify_types_from(s, src, tgt, 1)

unify_types(s, src, tgt) ==
    IF src.tag = "TypeVar"
    THEN bind_type_var(s, src.v, tgt)
    ELSE CASE src.tag = "Adt" /\ tgt.tag = "Adt" ->
                IF src.id # tgt.id THEN check_ok_return(FALSE, s)
                ELSE unify_args(s, src.args, tgt.args)
           [] src.tag = "Literal" /\ tgt.tag = "Literal" ->
                check_ok_return(src.lit = tgt.lit, s)
           [] src.tag = "Never" /\ tgt.tag = "Never" -> check_ok_return(TRUE, s)
           [] src.tag = "Ref" /\ tgt.tag = "Ref" ->
                LET r1 == IF ~s.ignore_regions
                          THEN unify_regions(s, src.r, tgt.r)
                          ELSE check_ok_return(TRUE, s)
                    r2 == unify_types(r1.s, src.ty, tgt.ty)
                IN  IF ~r1.ok THEN r1
                    ELSE IF ~r2.ok THEN r2
                    ELSE check_ok_return(src.kind = tgt.kind, r2.s)
           [] src.tag = "RawPtr" /\ tgt.tag = "RawPtr" ->
                LET r2 == unify_types(s, src.ty, tgt.ty)
                IN  IF ~r2.ok THEN r2
                    ELSE check_ok_return(src.kind = tgt.kind, r2.s)
           [] OTHER -> check_ok_return(FALSE, s)

unify_args(s, src, tgt) ==
    LET r1 == IF ~s.ignore_regions
              THEN unify_regions_lists(s, src.regions, tgt.regions)
              ELSE check_ok_return(TRUE, s)
        r2 == unify_types_lists(r1.s, src.types, tgt.types)
        r3 == unify_const_generics_lists(r2.s, src.const_generics, tgt.const_generics)
    IN  IF ~r1.ok THEN r1
        ELSE IF ~r2.ok THEN r2
        ELSE r3

Err == [tag |-> "Err"]

(* Faulty variant: the fixed type variables are not bound beforehand. *)
unify_args_with_fixed_unseeded(fixed_type_vars, fixed_const_generic_vars, src, tgt) ==
    LET s0 == [TySubst_new EXCEPT
                 !.const_generics_map = [v \in fixed_const_generic_vars |-> CGVar(v)],
                 !.ignore_regions = TRUE]
        r == unify_args(s0, src, tgt)
    IN  IF r.ok THEN Ok(r.s) ELSE Err

(* Faulty variant: a failure hands back the substitution built so far. *)
unify_args_with_fixed_partial(fixed_type_vars, fixed_const_generic_vars, src, tgt) ==
    LET s0 == [TySubst_new EXCEPT
                 !.type_vars_map = [v \in fixed_type_vars |-> TypeVar(v)],
                 !.const_generics_map = [v \in fixed_const_generic_vars |-> CGVar(v)],
                 !.ignore_regions = TRUE]
        r == unify_args(s0, src, tgt)
    IN  IF r.ok THEN Ok(r.s) ELSE [tag |-> "Err", val |-> r.s]

(* Faulty variant: the regions are unified too. *)
unify_args_with_fixed_with_regions(fixed_type_vars, fixed_const_generic_vars, src, tgt) ==
    LET s0 == [TySubst_new EXCEPT
                 !.type_vars_map = [v \in fixed_type_vars |-> TypeVar(v)],
                 !.const_generics_map = [v \in fixed_const_generic_vars |-> CGVar(v)]]
        r == unify_args(s0, src, tgt)
    IN  IF r.ok THEN Ok(r.s) ELSE Err

(* The fixed variables are sets here: the iterators only feed insert. *)
unify_args_with_fixed(fixed_type_vars, fixed_const_generic_vars, src, tgt) ==
    LET s0 == [TySubst_new EXCEPT
                 !.type_vars_map = [v \in fixed_type_vars |-> TypeVar(v)],
                 !.const_generics_map = [v \in fixed_const_generic_vars |-> CGVar(v)],
                 !.ignore_regions = TRUE]
        r == unify_args(s0, src, tgt)
    IN  IF r.ok THEN Ok(r.s) ELSE Err

---------------------------------------------------------------------------
(* The type trees of the universe: leaves, wrapped MaxDepth times. *)

NoArg == <<>>
NoOut == [tag |-> "None"]
NoSt == [tag |-> "None"]
NoCtx == [tag |-> "None"]

ClauseId(i) == <<"Clause", i>>

(* A trait reference mentioning t, with a region variable in its declaration
   reference. *)
TraitRefOf(t) ==
    TraitRef(ClauseId(0), GenericArgs_new_from_types(<<t>>),
             TraitDeclRef(0, GenericArgs_new(<<RVar(0)>>, <<t>>, <<>>, <<>>)))

(* n types, the last of which is t. *)
Pad(t, n) == [i \in 1..n |-> IF i = n THEN t ELSE Literal("Bool")]

TyLeaves ==
    {TypeVar(v) : v \in TypeVarIds}
    \cup {Literal("Bool"), Never, mk_unit,
          Adt(TupleId, GenericArgs_new(<<Static>>, <<>>, <<>>, <<>>)),
          Adt(TupleId, GenericArgs_new(<<>>, <<>>, <<CGValue(1)>>, <<>>))}

Wraps(t) ==
    {Ref(r, t, "Shared") : r \in RegionSet}
    \cup {Ref(Static, t, "Mut"), RawPtr(t, "Mut")}
    \cup {Adt(AdtId(0), GenericArgs_new_from_types(Pad(t, n))) : n \in 1..MaxLen}
    \cup {Adt(TupleId, GenericArgs_new_from_types(<<t>>))}
    \cup {Adt(AdtId(1), GenericArgs_new(<<r>>, <<t>>, <<>>, <<>>)) :
             r \in {Static} \cup {RVar(i) : i \in RegionIds}}
    \cup {Adt(AdtId(0), GenericArgs_new(<<>>, <<>>, <<CGVar(0)>>, <<TraitRefOf(t)>>))}
    \cup {TraitType(TraitRefOf(t), GenericArgs_empty, "Item")}
    \cup {Arrow(<<Literal("Bool")>>, t), Arrow(<<t>>, mk_unit)}

(* The maps substitute is applied with. *)
IdMaps == [r |-> IdRegion, t |-> IdTypeVar, c |-> IdConstGeneric]
(* Maps without fixed points: every type variable goes to a variable-free
   type, every const-generic variable to a value, every region elsewhere. *)
GroundMaps ==
    [r |-> [r \in RegionSet |->
              CASE r[1] = "Var" -> Static
                [] r[1] = "Static" -> Erased
                [] OTHER -> Static],
     t |-> [v \in TypeVarIds |->
              IF v = 0 THEN Literal("Char")
              ELSE Adt(TupleId, GenericArgs_new_from_types(<<Literal("Char")>>))],
     c |-> [c \in ConstGenericVarIds |-> CGValue(7)]]
SubstMaps == {IdMaps, GroundMaps}

---------------------------------------------------------------------------
(* The operations on one type tree. *)

Init ==
    /\ op = "init"
    /\ ty \in TyLeaves
    /\ src_ty = Never
    /\ tgt_ty = Never
    /\ depth = 0
    /\ arg = NoArg
    /\ out = NoOut
    /\ st = NoSt
    /\ ctx = NoCtx

(* The caller builds a bigger tree around the current one. *)
Construct ==
    /\ op = "init"
    /\ depth < MaxDepth
    /\ ty' \in Wraps(ty)
    /\ depth' = depth + 1
    /\ UNCHANGED <<op, src_ty, tgt_ty, arg, out>>
    /\ UNCHANGED <<st, ctx>>

Substitute ==
    /\ op = "init"
    /\ \E m \in SubstMaps :
          /\ arg' = m
          /\ out' = Ok(Ty_substitute(ty, m.r, m.t, m.c))
    /\ op' = "substitute"
    /\ UNCHANGED <<ty, src_ty, tgt_ty, depth>>
    /\ UNCHANGED <<st, ctx>>

SubstituteArgs ==
    /\ op = "init"
    /\ ty.tag \in {"Adt", "TraitType"}
    /\ \E m \in SubstMaps :
          /\ arg' = m
          /\ out' = Ok(GenericArgs_substitute(ty.args, m.r, m.t, m.c))
    /\ op' = "substitute_args"
    /\ UNCHANGED <<ty, src_ty, tgt_ty, depth>>
    /\ UNCHANGED <<st, ctx>>

SubstituteTraitRef ==
    /\ op = "init"
    /\ ty.tag = "TraitType"
    /\ \E m \in SubstMaps :
          /\ arg' = m
          /\ out' = Ok(TraitRef_substitute(ty.tref, m.r, m.t, m.c))
    /\ op' = "substitute_trait_ref"
    /\ UNCHANGED <<ty, src_ty, tgt_ty, depth>>
    /\ UNCHANGED <<st, ctx>>

EraseRegions ==
    /\ op = "init"
    /\ out' = Ok(erase_regions(ty))
    /\ op' = "erase_regions"
    /\ UNCHANGED <<ty, src_ty, tgt_ty, depth, arg>>
    /\ UNCHANGED <<st, ctx>>

(* erase_regions applied to the tree a first erase_regions returned. *)
EraseRegionsAgain ==
    /\ op = "erase_regions"
    /\ out' = Ok(erase_regions(out.val))
    /\ op' = "erase_regions_twice"
    /\ UNCHANGED <<ty, src_ty, tgt_ty, depth, arg>>
    /\ UNCHANGED <<st, ctx>>

ContainsRegionVar ==
    /\ op = "init"
    /\ \E rset \in SUBSET RegionIds :
          /\ arg' = rset
          /\ out' = Ok(contains_region_var(ty, rset))
    /\ op' = "contains_region_var"
    /\ UNCHANGED <<ty, src_ty, tgt_ty, depth>>
    /\ UNCHANGED <<st, ctx>>

ContainsVariables ==
    /\ op = "init"
    /\ out' = Ok(contains_variables(ty))
    /\ op' = "contains_variables"
    /\ UNCHANGED <<ty, src_ty, tgt_ty, depth, arg>>
    /\ UNCHANGED <<st, ctx>>

(* Ty::mk_unit(): the tree is replaced by the unit type. *)
MkUnit ==
    /\ op = "init"
    /\ ty' = mk_unit
    /\ arg' = <<"mk_unit">>
    /\ op' = "mk_unit"
    /\ UNCHANGED <<src_ty, tgt_ty, depth, out>>
    /\ UNCHANGED <<st, ctx>>

IsUnit ==
    /\ op \in {"init", "mk_unit"}
    /\ out' = is_unit(ty)
    /\ op' = "is_unit"
    /\ UNCHANGED <<ty, src_ty, tgt_ty, depth, arg>>
    /\ UNCHANGED <<st, ctx>>

Next ==
    \/ Construct
    \/ Substitute
    \/ SubstituteArgs
    \/ SubstituteTraitRef
    \/ EraseRegions
    \/ EraseRegionsAgain
    \/ ContainsRegionVar
    \/ ContainsVariables
    \/ MkUnit
    \/ IsUnit

Spec == Init /\ [][Next]_vars

---------------------------------------------------------------------------
(* Unification: the caller builds a source type and a target type side by *)
(* side, frames them into two GenericArgs and calls unify_args_with_fixed. *)

RefKinds == {"Mut", "Shared"}

SrcLeaves == {TypeVar(v) : v \in TypeVarIds} \cup {Literal("Bool"), Never}
TgtLeaves == {TypeVar(0), Literal("Bool"), Literal("Char"), Never}

(* Pairs <<source, target>> built around the pair <<s, t>>. *)
PairWraps(s, t) ==
    {<<Ref(Static, s, "Shared"), Ref(Static, t, k)>> : k \in RefKinds}
    \cup {<<Ref(RVar(0), s, "Shared"), Ref(Static, t, "Shared")>>,
          <<RawPtr(s, "Mut"), RawPtr(t, "Mut")>>,
          <<Ref(Static, s, "Shared"), RawPtr(t, "Shared")>>}
    \cup {<<Adt(AdtId(0), GenericArgs_new_from_types(<<s>>)),
            Adt(AdtId(i), GenericArgs_new_from_types(<<t>>))>> : i \in {0, 1}}
    \cup {<<Adt(AdtId(0), GenericArgs_new_from_types(<<s, s>>)),
            Adt(AdtId(0), GenericArgs_new_from_types(<<t, u>>))>> :
               u \in {t, Literal("Char")}}
    \cup {<<Adt(TupleId, GenericArgs_new_from_types(<<s, Literal("Bool")>>)),
            Adt(TupleId, GenericArgs_new_from_types(<<t>>))>>,
          <<Adt(AdtId(0), GenericArgs_new(<<RVar(0)>>, <<s>>, <<CGVar(0)>>,
                                          <<TraitRefOf(TypeVar(0))>>)),
            Adt(AdtId(0), GenericArgs_new(<<>>, <<t>>, <<CGValue(1)>>, <<>>))>>,
          <<TraitType(TraitRefOf(s), GenericArgs_empty, "Item"),
            TraitType(TraitRefOf(t), GenericArgs_empty, "Item")>>,
          <<Arrow(<<s>>, mk_unit), Arrow(<<t>>, mk_unit)>>,
          <<s, Ref(Static, t, "Shared")>>}

(* The pairs that may follow the first pair in the two types lists. *)
MorePairs ==
    {<<TypeVar(v), Literal("Bool")>> : v \in TypeVarIds}
    \cup {<<Literal("Bool"), Literal("Bool")>>}

Repeat(x, n) == [i \in 1..n |-> x]

(* The single const generics of the two sides. *)
SrcConstGenerics ==
    {CGVar(c) : c \in ConstGenericVarIds} \cup {CGGlobal(0), CGValue(1)}
TgtConstGenerics == {CGVar(0), CGGlobal(0), CGValue(1), CGValue(2)}

(* The framings of <<s, t>>: pairs <<src, tgt>> of GenericArgs. *)
Frames(s, t) ==
    {<<GenericArgs_new_from_types(<<s>> \o Repeat(e[1], n)),
       GenericArgs_new_from_types(<<t>> \o Repeat(e[2], n))>> :
          e \in MorePairs, n \in 0..(MaxLen - 1)}
    \cup {<<GenericArgs_new_from_types(<<s, TypeVar(NumTypeVars - 1)>>),
            GenericArgs_new_from_types(<<t>>)>>,
          <<GenericArgs_new_from_types(<<s>>),
            GenericArgs_new_from_types(<<t, Literal("Bool")>>)>>}
    \cup {<<GenericArgs_new(<<RVar(0)>>, <<s>>, <<>>, <<>>),
            GenericArgs_new(r, <<t>>, <<>>, <<>>)>> : r \in {<<>>, <<Static>>}}
    \cup {<<GenericArgs_new(<<>>, <<s>>, <<>>, <<TraitRefOf(Literal("Bool"))>>),
            GenericArgs_new(<<>>, <<t>>, <<>>, x)>> :
               x \in {<<>>, <<TraitRefOf(Literal("Char"))>>}}
    \cup {<<GenericArgs_new(<<>>, <<s>>, <<a>>, <<>>),
            GenericArgs_new(<<>>, <<t>>, <<b>>, <<>>)>> :
               a \in SrcConstGenerics, b \in TgtConstGenerics}
    \cup {<<GenericArgs_new(<<>>, <<s>>, <<CGVar(0), CGVar(0)>>, <<>>),
            GenericArgs_new(<<>>, <<t>>, <<CGValue(1), b>>, <<>>)>> :
               b \in {CGValue(1), CGValue(2)}}
    \cup {<<GenericArgs_new(<<>>, <<s>>, <<CGValue(1)>>, <<>>),
            GenericArgs_new(<<>>, <<t>>, <<>>, <<>>)>>}

(* The fixed variables of a call. *)
FixedChoices ==
    {[t |-> {}, c |-> {}], [t |-> {}, c |-> {0}]}
    \cup {[t |-> {v}, c |-> {}] : v \in TypeVarIds}

InitUnify ==
    /\ op = "init"
    /\ ty = Never
    /\ src_ty \in SrcLeaves
    /\ tgt_ty \in TgtLeaves
    /\ depth = 0
    /\ arg = NoArg
    /\ out = NoOut
    /\ st = NoSt
    /\ ctx = NoCtx

ConstructPair ==
    /\ op = "init"
    /\ depth + 1 < MaxDepth
    /\ \E p \in PairWraps(src_ty, tgt_ty) :
          /\ src_ty' = p[1]
          /\ tgt_ty' = p[2]
    /\ depth' = depth + 1
    /\ UNCHANGED <<op, ty, arg, out>>
    /\ UNCHANGED <<st, ctx>>

UnifyArgsWithFixed ==
    /\ op = "init"
    /\ \E f \in Frames(src_ty, tgt_ty), fx \in FixedChoices :
          /\ arg' = [fixed_type_vars |-> fx.t, fixed_const_generic_vars |-> fx.c,
                     src |-> f[1], tgt |-> f[2]]
          /\ out' = unify_args_with_fixed(fx.t, fx.c, f[1], f[2])
    /\ op' = "unify_args_with_fixed"
    /\ UNCHANGED <<ty, src_ty, tgt_ty, depth>>
    /\ UNCHANGED <<st, ctx>>

(* The same tree with other region slots: every Ref region is r and every
   regions list is n copies of r. *)
RECURSIVE WithRegionSlotsTy(_, _, _), WithRegionSlotsArgs(_, _, _)
WithRegionSlotsArgs(g, r, n) ==
    [regions |-> Repeat(r, n),
     types |-> [i \in 1..Len(g.types) |-> WithRegionSlotsTy(g.types[i], r, n)],
     const_generics |-> g.const_generics,
     trait_refs |->
        [i \in 1..Len(g.trait_refs) |->
            TraitRef(g.trait_refs[i].trait_id,
                     WithRegionSlotsArgs(g.trait_refs[i].generics, r, n),
                     TraitDeclRef(g.trait_refs[i].trait_decl_ref.trait_id,
                        WithRegionSlotsArgs(g.trait_refs[i].trait_decl_ref.generics, r, n)))]]
WithRegionSlotsTy(t, r, n) ==
    CASE t.tag = "Adt" -> Adt(t.id, WithRegionSlotsArgs(t.args, r, n))
      [] t.tag = "Ref" -> Ref(r, WithRegionSlotsTy(t.ty, r, n), t.kind)
      [] t.tag = "RawPtr" -> RawPtr(WithRegionSlotsTy(t.ty, r, n), t.kind)
      [] t.tag = "TraitType" ->
           TraitType(TraitRef(t.tref.trait_id,
                              WithRegionSlotsArgs(t.tref.generics, r, n),
                              TraitDeclRef(t.tref.trait_decl_ref.trait_id,
                                 WithRegionSlotsArgs(t.tref.trait_decl_ref.generics, r, n))),
                     WithRegionSlotsArgs(t.args, r, n), t.name)
      [] t.tag = "Arrow" ->
           Arrow([i \in 1..Len(t.inputs) |-> WithRegionSlotsTy(t.inputs[i], r, n)],
                 WithRegionSlotsTy(t.output, r, n))
      [] OTHER -> t

(* Two pairs that differ from <<src, tgt>> in region slots only: one with other
   regions in the source, one with the regions of both sides removed. *)
RegionVariants(src, tgt) ==
    {<<WithRegionSlotsArgs(src, RVar(0), 1), tgt>>,
     <<WithRegionSlotsArgs(src, Erased, 0), WithRegionSlotsArgs(tgt, Erased, 0)>>}

(* A second call, on a pair that differs from the first in region slots only;
   the first call and its outcome are kept for comparison. *)
UnifyArgsWithFixedRegionVariant ==
    /\ op = "unify_args_with_fixed"
    /\ \E p \in RegionVariants(arg.src, arg.tgt) :
          /\ arg' = [first_call |-> arg, first_out |-> out, src |-> p[1], tgt |-> p[2]]
          /\ out' = unify_args_with_fixed(arg.fixed_type_vars, arg.fixed_const_generic_vars,
                                          p[1], p[2])
    /\ op' = "unify_args_with_fixed_region_variant"
    /\ UNCHANGED <<ty, src_ty, tgt_ty, depth>>
    /\ UNCHANGED <<st, ctx>>

NextUnify ==
    \/ ConstructPair
    \/ UnifyArgsWithFixed
    \/ UnifyArgsWithFixedRegionVariant

SpecUnify == InitUnify /\ [][NextUnify]_vars

---------------------------------------------------------------------------
(* Properties of the operations on one type tree. *)

(* C1: substitute applied with the identity region map, the identity
   type-variable map and the identity const-generic map returns a tree equal
   to its input, for a Ty, a GenericArgs and a TraitRef. *)
C1_IdentitySubstitution ==
    /\ (op = "substitute" /\ arg = IdMaps) => out = Ok(ty)
    /\ (op = "substitute_args" /\ arg = IdMaps) => out = Ok(ty.args)
    /\ (op = "substitute_trait_ref" /\ arg = IdMaps) => out = Ok(ty.tref)

C1_Witness ==
    /\ op = "substitute_trait_ref"
    /\ arg = IdMaps
    /\ ty.tref.generics.types[1].tag = "Ref"
    /\ out = Ok(ty.tref)

(* C2: erase_regions is idempotent: erasing the regions of an erased tree
   gives the erased tree again. *)
C2_EraseRegionsIdempotent ==
    op = "erase_regions_twice" => out = Ok(erase_regions(ty))

C2_Witness ==
    /\ op = "erase_regions_twice"
    /\ ty.tag = "Ref"
    /\ ty.r = RVar(0)
    /\ out.val.r = Erased

(* Some Ref of the tree, or some regions list of the generic-args of an Adt or
   TraitType nested anywhere in it, carries a region variable of rset. *)
RECURSIVE RegionVarOccurs(_, _)
RegionVarOccurs(t, rset) ==
    CASE t.tag = "Ref" ->
           (t.r[1] = "Var" /\ t.r[2] \in rset) \/ RegionVarOccurs(t.ty, rset)
      [] t.tag = "RawPtr" -> RegionVarOccurs(t.ty, rset)
      [] t.tag \in {"Adt", "TraitType"} ->
           \/ \E i \in 1..Len(t.args.regions) :
                 t.args.regions[i][1] = "Var" /\ t.args.regions[i][2] \in rset
           \/ \E i \in 1..Len(t.args.types) : RegionVarOccurs(t.args.types[i], rset)
      [] t.tag = "Arrow" ->
           \/ \E i \in 1..Len(t.inputs) : RegionVarOccurs(t.inputs[i], rset)
           \/ RegionVarOccurs(t.output, rset)
      [] OTHER -> FALSE

(* C8: contains_region_var(t, s) is true iff some Ref of the tree, or some
   region of the generic-args of an Adt/TraitType nested anywhere in the tree
   (also inside the types of an Adt whose own regions list is empty), carries a
   region variable of s. *)
C8_ContainsRegionVarIffOccurs ==
    op = "contains_region_var" => out = Ok(RegionVarOccurs(ty, arg))

(* A type variable or a region slot occurs in the tree; with in_trait_refs,
   the trait references (of a TraitType and of generic-args) are searched
   too. *)
RECURSIVE VarOrRegionOccurs(_, _)
RECURSIVE VarOrRegionOccursInArgs(_, _)
VarOrRegionOccursInTraitRef(tr, in_trait_refs) ==
    \/ VarOrRegionOccursInArgs(tr.generics, in_trait_refs)
    \/ VarOrRegionOccursInArgs(tr.trait_decl_ref.generics, in_trait_refs)
VarOrRegionOccursInArgs(g, in_trait_refs) ==
    \/ g.regions # <<>>
    \/ \E i \in 1..Len(g.types) : VarOrRegionOccurs(g.types[i], in_trait_refs)
    \/ /\ in_trait_refs
       /\ \E i \in 1..Len(g.trait_refs) :
             VarOrRegionOccursInTraitRef(g.trait_refs[i], in_trait_refs)
VarOrRegionOccurs(t, in_trait_refs) ==
    CASE t.tag = "TypeVar" -> TRUE
      [] t.tag = "Ref" -> TRUE
      [] t.tag = "RawPtr" -> VarOrRegionOccurs(t.ty, in_trait_refs)
      [] t.tag = "Adt" -> VarOrRegionOccursInArgs(t.args, in_trait_refs)
      [] t.tag = "TraitType" ->
           \/ VarOrRegionOccursInArgs(t.args, in_trait_refs)
           \/ in_trait_refs /\ VarOrRegionOccursInTraitRef(t.tref, in_trait_refs)
      [] t.tag = "Arrow" ->
           \/ \E i \in 1..Len(t.inputs) : VarOrRegionOccurs(t.inputs[i], in_trait_refs)
           \/ VarOrRegionOccurs(t.output, in_trait_refs)
      [] OTHER -> FALSE

(* C9 as stated: contains_variables(t) is true iff the tree contains a type
   variable anywhere or any region occurrence at all. *)
C9_ContainsVariablesAnywhere ==
    op = "contains_variables" => out = Ok(VarOrRegionOccurs(ty, TRUE))

(* C9 amended: contains_variables(t) is true iff the tree contains, outside
   its trait references, a type variable or any region occurrence (a Ref, even
   a Static one, or a non-empty regions list of some generic-args). *)
C9_ContainsVariablesOutsideTraitRefs ==
    op = "contains_variables" => out = Ok(VarOrRegionOccurs(ty, FALSE))

C9_Witness ==
    /\ op = "contains_variables"
    /\ ty.tag = "RawPtr"
    /\ ty.ty.tag = "Ref"
    /\ ty.ty.r = Static
    /\ ty.ty.ty = Never
    /\ out = Ok(TRUE)

IsTuple(t) == t.tag = "Adt" /\ t.id = TupleId

(* C10 as stated: mk_unit().is_unit() is true, and is_unit(t) is true iff t is
   the tuple Adt with zero type arguments: false for every tuple Adt with a
   type argument and for every non-tuple type. *)
C10_IsUnitIffEmptyTuple ==
    op = "is_unit" => out = Ok(IsTuple(ty) /\ ty.args.types = <<>>)

(* C10 amended: mk_unit().is_unit() is true; on a tuple Adt whose generic-args
   carry a region or a const generic is_unit panics; on every other type it is
   true iff the type is the tuple Adt with zero type arguments. *)
C10_IsUnitIffEmptyTupleOrPanic ==
    op = "is_unit" =>
        /\ arg = <<"mk_unit">> => out = Ok(TRUE)
        /\ IF IsTuple(ty) /\ (ty.args.regions # <<>> \/ ty.args.const_generics # <<>>)
           THEN out = Panic
           ELSE out = Ok(IsTuple(ty) /\ ty.args.types = <<>>)

C10_Witness ==
    /\ op = "is_unit"
    /\ arg = <<"mk_unit">>
    /\ ty = mk_unit
    /\ out = Ok(TRUE)

---------------------------------------------------------------------------
(* Positions of a tree, for the properties of unification. *)

Absent == [tag |-> "Absent"]

(* The types directly under a type: the positions unification pairs up. *)
TyChildren(t) ==
    CASE t.tag \in {"Adt", "TraitType"} -> t.args.types
      [] t.tag \in {"Ref", "RawPtr"} -> <<t.ty>>
      [] t.tag = "Arrow" -> t.inputs \o <<t.output>>
      [] OTHER -> <<>>

(* A GenericArgs seen as the root of a tree. *)
Root(g) == Adt(TupleId, g)

RECURSIVE Positions(_)
Positions(t) ==
    {<<>>} \cup UNION {{<<i>> \o q : q \in Positions(TyChildren(t)[i])} :
                          i \in 1..Len(TyChildren(t))}

RECURSIVE SubtermAt(_, _)
SubtermAt(t, p) ==
    IF p = <<>> THEN t
    ELSE IF Head(p) \in 1..Len(TyChildren(t))
         THEN SubtermAt(TyChildren(t)[Head(p)], Tail(p))
         ELSE Absent

(* Where the const-generic variable c stands in the tree: a position and an
   index into the const generics of the node there. *)
ConstGenericVarPlaces(t, c) ==
    {x \in Positions(t) \X (1..MaxLen + 1) :
        LET n == SubtermAt(t, x[1])
        IN  /\ n.tag \in {"Adt", "TraitType"}
            /\ x[2] <= Len(n.args.const_generics)
            /\ n.args.const_generics[x[2]] = CGVar(c)}

(* The variables of a tree, one entry per occurrence, trait references and
   the trees nested in trait instance ids included. *)
RECURSIVE VarsOfTy(_)
RECURSIVE VarsOfTys(_, _)
RECURSIVE VarsOfArgs(_)
RECURSIVE VarsOfTraitRefs(_, _)
RECURSIVE VarsOfId(_)
VarsOfRegions(rs) ==
    LET vs == SelectSeq(rs, LAMBDA r : r[1] = "Var")
    IN  [i \in 1..Len(vs) |-> <<"region", vs[i][2]>>]
VarsOfConstGenerics(cgs) ==
    LET vs == SelectSeq(cgs, LAMBDA c : c[1] = "Var")
    IN  [i \in 1..Len(vs) |-> <<"const", vs[i][2]>>]
VarsOfTys(ts, i) ==
    IF i > Len(ts) THEN <<>> ELSE VarsOfTy(ts[i]) \o VarsOfTys(ts, i + 1)
VarsOfTraitRefs(trs, i) ==
    IF i > Len(trs) THEN <<>>
    ELSE VarsOfId(trs[i].trait_id) \o VarsOfArgs(trs[i].generics)
         \o VarsOfArgs(trs[i].trait_decl_ref.generics)
         \o VarsOfTraitRefs(trs, i + 1)
VarsOfId(id) ==
    CASE id[1] \in {"ParentClause", "ItemClause"} -> VarsOfId(id[2])
      [] id[1] = "FnPointer" -> VarsOfTy(id[2])
      [] id[1] = "Unsolved" -> VarsOfArgs(id[3])
      [] OTHER -> <<>>
VarsOfArgs(g) ==
    VarsOfRegions(g.regions) \o VarsOfTys(g.types, 1)
    \o VarsOfConstGenerics(g.const_generics) \o VarsOfTraitRefs(g.trait_refs, 1)
VarsOfTy(t) ==
    CASE t.tag = "TypeVar" -> << <<"type", t.v>> >>
      [] t.tag = "Adt" -> VarsOfArgs(t.args)
      [] t.tag = "Ref" -> VarsOfRegions(<<t.r>>) \o VarsOfTy(t.ty)
      [] t.tag = "RawPtr" -> VarsOfTy(t.ty)
      [] t.tag = "TraitType" -> VarsOfTraitRefs(<<t.tref>>, 1) \o VarsOfArgs(t.args)
      [] t.tag = "Arrow" -> VarsOfTys(t.inputs, 1) \o VarsOfTy(t.output)
      [] OTHER -> <<>>

(* Every variable occurs at most once; no variable occurs. *)
Linear(g) ==
    LET vs == VarsOfArgs(g)
    IN  \A i, j \in 1..Len(vs) : i # j => vs[i] # vs[j]
Ground(g) == VarsOfArgs(g) = <<>>

(* A tree without its region slots and trait references: regions lists and
   trait_refs lists emptied, Ref regions erased. *)
RECURSIVE StripTy(_)
StripArgs(g) ==
    [regions |-> <<>>,
     types |-> [i \in 1..Len(g.types) |-> StripTy(g.types[i])],
     const_generics |-> g.const_generics,
     trait_refs |-> <<>>]
StripTy(t) ==
    CASE t.tag = "Adt" -> Adt(t.id, StripArgs(t.args))
      [] t.tag = "Ref" -> Ref(Erased, StripTy(t.ty), t.kind)
      [] t.tag = "RawPtr" -> RawPtr(StripTy(t.ty), t.kind)
      [] t.tag = "TraitType" -> TraitType(t.tref, StripArgs(t.args), t.name)
      [] t.tag = "Arrow" ->
           Arrow([i \in 1..Len(t.inputs) |-> StripTy(t.inputs[i])], StripTy(t.output))
      [] OTHER -> t

Unified == op = "unify_args_with_fixed"
NoFixed == arg.fixed_type_vars = {} /\ arg.fixed_const_generic_vars = {}

---------------------------------------------------------------------------
(* Properties of unification. *)

(* C3 as stated: if unify_args_with_fixed, with no fixed variables, succeeds
   on a linear source S against a ground target T and returns M, then
   substituting S with M's region, type-variable and const-generic maps yields
   a GenericArgs equal to T in all four component lists. *)
C3_SubstituteUnifierGivesTarget ==
    (Unified /\ NoFixed /\ out.tag = "Ok" /\ Linear(arg.src) /\ Ground(arg.tgt)) =>
        GenericArgs_substitute(arg.src,
                               Region_substitute(out.val.regions_map),
                               TypeSubst_get_unwrap(out.val.type_vars_map),
                               ConstGenericSubst_get_unwrap(out.val.const_generics_map))
          = arg.tgt

(* C3 amended: under the same conditions, substituting S with M's
   type-variable and const-generic maps yields a GenericArgs equal to T up to
   what unification does not compare: the two are equal once every regions
   list and every trait_refs list is emptied and every Ref region is erased on
   both sides. *)
C3_SubstituteUnifierGivesTargetUpToRegions ==
    (Unified /\ NoFixed /\ out.tag = "Ok" /\ Linear(arg.src) /\ Ground(arg.tgt)) =>
        StripArgs(GenericArgs_substitute(StripArgs(arg.src), IdRegion,
                      TypeSubst_get_unwrap(out.val.type_vars_map),
                      ConstGenericSubst_get_unwrap(out.val.const_generics_map)))
          = StripArgs(arg.tgt)

C3_Witness ==
    /\ Unified /\ NoFixed
    /\ out.tag = "Ok"
    /\ Linear(arg.src) /\ Ground(arg.tgt)
    /\ arg.src.types = <<Ref(RVar(0), TypeVar(0), "Shared"), TypeVar(1)>>
    /\ DOMAIN out.val.type_vars_map = {0, 1}

(* C4: unification fails when one source type variable stands at two
   positions whose targets differ. *)
C4_ConflictingTargetsFail ==
    Unified =>
        LET S == Root(arg.src)
            T == Root(arg.tgt)
        IN  \/ out = Err
            \/ ~ \E p, q \in Positions(S) :
                    /\ p # q
                    /\ SubtermAt(S, p).tag = "TypeVar"
                    /\ SubtermAt(S, q) = SubtermAt(S, p)
                    /\ SubtermAt(T, p) # Absent
                    /\ SubtermAt(T, q) # Absent
                    /\ SubtermAt(T, p) # SubtermAt(T, q)

C4_Witness ==
    /\ Unified /\ NoFixed
    /\ arg.src.types =
         <<Adt(AdtId(0), GenericArgs_new_from_types(<<TypeVar(0), TypeVar(0)>>))>>
    /\ arg.tgt.types =
         <<Adt(AdtId(0), GenericArgs_new_from_types(<<Literal("Bool"), Literal("Char")>>))>>
    /\ arg.src.const_generics = <<>> /\ arg.tgt.const_generics = <<>>
    /\ out = Err

(* C5: unification is strictly linear: a source type variable or
   const-generic variable that stands at two positions makes unification
   fail, even when the two targets are identical. *)
C5_StrictlyLinear ==
    Unified =>
        LET S == Root(arg.src)
        IN  \/ out = Err
            \/ /\ \A v \in TypeVarIds :
                      Cardinality({p \in Positions(S) : SubtermAt(S, p) = TypeVar(v)}) < 2
               /\ \A c \in ConstGenericVarIds :
                      Cardinality(ConstGenericVarPlaces(S, c)) < 2

C5_Witness ==
    /\ Unified /\ NoFixed
    /\ arg.src = GenericArgs_new_from_types(<<TypeVar(0), TypeVar(0)>>)
    /\ arg.tgt = GenericArgs_new_from_types(<<Literal("Bool"), Literal("Bool")>>)
    /\ out = Err

(* C6: with v among the fixed type variables, unification fails whenever the
   source has TypeVar(v) at a position where the target is anything other than
   TypeVar(v). *)
C6_FixedVariableIsRigid ==
    Unified =>
        LET S == Root(arg.src)
            T == Root(arg.tgt)
        IN  \/ out = Err
            \/ ~ \E v \in arg.fixed_type_vars : \E p \in Positions(S) :
                    /\ SubtermAt(S, p) = TypeVar(v)
                    /\ SubtermAt(T, p) # TypeVar(v)

C6_Witness ==
    /\ Unified
    /\ arg.fixed_type_vars = {0}
    /\ arg.src = GenericArgs_new_from_types(<<TypeVar(0)>>)
    /\ arg.tgt = GenericArgs_new_from_types(<<Literal("Bool")>>)
    /\ out = Err

(* The source node a is no variable and differs from the target node b in its
   head constructor, ADT id, literal kind or reference kind, or in the length
   of its types or const-generics list. *)
HeadMismatch(a, b) ==
    /\ a.tag # "TypeVar"
    /\ \/ a.tag # b.tag
       \/ /\ a.tag = "Adt"
          /\ \/ a.id # b.id
             \/ Len(a.args.types) # Len(b.args.types)
             \/ Len(a.args.const_generics) # Len(b.args.const_generics)
       \/ a.tag = "Literal" /\ a.lit # b.lit
       \/ a.tag \in {"Ref", "RawPtr"} /\ a.kind # b.kind

(* C7: unification fails whenever, at some pair of corresponding positions,
   the source is not a variable and the two sides have different head
   constructors (or ADT ids, literal kinds, reference kinds), or two
   corresponding types lists or const-generics lists have different
   lengths. *)
C7_MismatchFails ==
    Unified =>
        LET S == Root(arg.src)
            T == Root(arg.tgt)
        IN  \/ out = Err
            \/ ~ \E p \in Positions(S) :
                    /\ SubtermAt(T, p) # Absent
                    /\ HeadMismatch(SubtermAt(S, p), SubtermAt(T, p))

C7_Witness ==
    /\ Unified /\ NoFixed
    /\ arg.src = GenericArgs_new_from_types(<<TypeVar(0), TypeVar(1)>>)
    /\ arg.tgt = GenericArgs_new_from_types(<<Literal("Bool")>>)
    /\ out = Err

---------------------------------------------------------------------------
(* Trait instance ids.  An id is a tuple whose first element names the     *)
(* variant; ParentClause and ItemClause carry an id, FnPointer a type,     *)
(* Unsolved a GenericArgs.                                                 *)

SelfId == <<"SelfId">>
TraitImpl(i) == <<"TraitImpl", i>>
BuiltinOrAuto(d) == <<"BuiltinOrAuto", d>>
ParentClause(id, decl_id, clause_id) == <<"ParentClause", id, decl_id, clause_id>>
ItemClause(id, decl_id, name, clause_id) == <<"ItemClause", id, decl_id, name, clause_id>>
FnPointer(t) == <<"FnPointer", t>>
Unsolved(trait_id, generics) == <<"Unsolved", trait_id, generics>>
UnknownId(msg) == <<"Unknown", msg>>

---------------------------------------------------------------------------
(* The shared-borrow visitor SharedTypeVisitor with its default methods,   *)
(* run by a visitor that records each call of a visit method that has an   *)
(* empty default body (the leaves of the traversal) and each visit_ty.     *)
(* A visit operator returns the sequence of the calls it makes, in order.  *)

RECURSIVE visit_ty(_)
RECURSIVE visit_generic_args(_)
RECURSIVE visit_trait_ref(_)
RECURSIVE visit_trait_instance_id(_)
RECURSIVE visit_tys_from(_, _)
RECURSIVE visit_trait_refs_from(_, _)

visit_region(r) ==
    IF r[1] = "Var" THEN << <<"visit_region_id", r[2]>> >> ELSE <<>>

visit_type_id(id) ==
    CASE id[1] = "Adt" -> << <<"visit_type_decl_id", id[2]>> >>
      [] id[1] = "Tuple" -> <<>>
      [] id[1] = "Assumed" -> << <<"visit_assumed_ty", id[2]>> >>

visit_const_generic(cg) ==
    CASE cg[1] = "Global" -> << <<"visit_global_decl_id", cg[2]>> >>
      [] cg[1] = "Var" -> << <<"visit_const_generic_var_id", cg[2]>> >>
      [] cg[1] = "Value" -> << <<"visit_literal", cg[2]>> >>

(* The loops of visit_generic_args and visit_arrow. *)
visit_regions(rs) ==
    LET vs == SelectSeq(rs, LAMBDA r : r[1] = "Var")
    IN  [i \in 1..Len(vs) |-> <<"visit_region_id", vs[i][2]>>]
visit_const_generics(cgs) ==
    [i \in 1..Len(cgs) |-> visit_const_generic(cgs[i])[1]]
visit_tys_from(ts, i) ==
    IF i > Len(ts) THEN <<>> ELSE visit_ty(ts[i]) \o visit_tys_from(ts, i + 1)
visit_trait_refs_from(trs, i) ==
    IF i > Len(trs) THEN <<>>
    ELSE visit_trait_ref(trs[i]) \o visit_trait_refs_from(trs, i + 1)

(* Faulty variant: the types are visited before the regions. *)
visit_generic_args_types_first(g) ==
    visit_tys_from(g.types, 1)
    \o visit_regions(g.regions)
    \o visit_const_generics(g.const_generics)
    \o visit_trait_refs_from(g.trait_refs, 1)

visit_generic_args(g) ==
    visit_regions(g.regions)
    \o visit_tys_from(g.types, 1)
    \o visit_const_generics(g.const_generics)
    \o visit_trait_refs_from(g.trait_refs, 1)

visit_trait_decl_ref(tr) ==
    << <<"visit_trait_decl_id", tr.trait_id>> >> \o visit_generic_args(tr.generics)

visit_trait_ref(tr) ==
    visit_trait_instance_id(tr.trait_id)
    \o visit_generic_args(tr.generics)
    \o visit_trait_decl_ref(tr.trait_decl_ref)

default_visit_trait_instance_id(id) ==
    CASE id[1] = "SelfId" -> <<>>
      [] id[1] = "TraitImpl" -> << <<"visit_trait_impl_id", id[2]>> >>
      [] id[1] = "BuiltinOrAuto" -> << <<"visit_trait_decl_id", id[2]>> >>
      [] id[1] = "Clause" -> << <<"visit_trait_clause_id", id[2]>> >>
      [] id[1] = "ParentClause" ->
           visit_trait_instance_id(id[2])
           \o << <<"visit_trait_decl_id", id[3]>>, <<"visit_trait_clause_id", id[4]>> >>
      [] id[1] = "ItemClause" ->
           visit_trait_instance_id(id[2])
           \o << <<"visit_trait_decl_id", id[3]>>, <<"visit_trait_clause_id", id[5]>> >>
      [] id[1] = "FnPointer" -> visit_ty(id[2])
      [] id[1] = "Unsolved" ->
           << <<"visit_trait_decl_id", id[2]>> >> \o visit_generic_args(id[3])
      [] id[1] = "Unknown" -> <<>>

visit_trait_instance_id(id) == default_visit_trait_instance_id(id)

visit_ty_adt(id, args) == visit_type_id(id) \o visit_generic_args(args)
visit_ty_type_var(vid) == << <<"visit_type_var_id", vid>> >>
visit_ty_ref(r, t) == visit_region(r) \o visit_ty(t)
visit_ty_raw_ptr(t) == visit_ty(t)
visit_arrow(inputs, output) == visit_tys_from(inputs, 1) \o visit_ty(output)

default_visit_ty(t) ==
    CASE t.tag = "Adt" -> visit_ty_adt(t.id, t.args)
      [] t.tag = "TypeVar" -> visit_ty_type_var(t.v)
      [] t.tag = "Literal" -> <<>>
      [] t.tag = "Never" -> <<>>
      [] t.tag = "Ref" -> visit_ty_ref(t.r, t.ty)
      [] t.tag = "RawPtr" -> visit_ty_raw_ptr(t.ty)
      [] t.tag = "TraitType" -> visit_trait_ref(t.tref) \o visit_generic_args(t.args)
      [] t.tag = "Arrow" -> visit_arrow(t.inputs, t.output)

(* The recording visitor: visit_ty notes the variant, then descends. *)
visit_ty(t) == << <<"visit_ty", t.tag>> >> \o default_visit_ty(t)

---------------------------------------------------------------------------
(* Type trees with trait references of every kind of trait instance id,    *)
(* and with tuple and Box types of every shape of generic-args.            *)

IntegerTys == {"Isize", "I8", "I16", "I32", "I64", "I128",
               "Usize", "U8", "U16", "U32", "U64", "U128"}

BoxId == Assumed("Box")

TraitLeaves == {TypeVar(v) : v \in TypeVarIds} \cup {Literal("U32"), Never}

(* The trait instance ids around the type t. *)
TraitRefWith(id, t) ==
    TraitRef(id, GenericArgs_new_from_types(<<t>>),
             TraitDeclRef(0, GenericArgs_new(<<RVar(0)>>, <<>>, <<>>, <<>>)))

TraitIdsOf(t) ==
    {SelfId, ClauseId(0), TraitImpl(0), BuiltinOrAuto(0), UnknownId("unknown"),
     ParentClause(SelfId, 0, 0),
     ParentClause(ClauseId(0), 0, 0),
     ItemClause(ParentClause(SelfId, 0, 0), 0, "Item", 0),
     FnPointer(t),
     FnPointer(TraitType(TraitRefWith(SelfId, t), GenericArgs_empty, "Item")),
     Unsolved(0, GenericArgs_new(<<RVar(0)>>, <<t>>, <<CGVar(0)>>,
                                 <<TraitRefWith(SelfId, t)>>))}

TraitWraps(t) ==
    {TraitType(TraitRefWith(id, t), GenericArgs_empty, "Item") : id \in TraitIdsOf(t)}
    \cup {Ref(r, t, "Shared") : r \in {RVar(i) : i \in RegionIds}}
    \cup {Adt(AdtId(0), GenericArgs_new(<<Static>>, <<t>>, <<CGVar(0)>>,
                                        <<TraitRefWith(SelfId, t)>>)),
          RawPtr(t, "Mut"),
          Arrow(<<Literal("Bool"), t>>, mk_unit),
          Adt(TupleId, GenericArgs_new_from_types(<<t>>)),
          Adt(TupleId, GenericArgs_new(<<Static>>, <<t>>, <<>>, <<>>)),
          Adt(BoxId, GenericArgs_new_from_types(<<t>>)),
          Adt(BoxId, GenericArgs_new_from_types(<<t, t>>)),
          Adt(BoxId, GenericArgs_new(<<>>, <<t>>, <<CGValue(1)>>, <<>>)),
          Adt(BoxId, GenericArgs_new(<<Static>>, <<t>>, <<>>, <<>>)),
          Adt(TupleId, GenericArgs_new(<<>>, <<>>, <<CGValue(1)>>, <<>>))}

InitTraits ==
    /\ op = "init"
    /\ ty \in TraitLeaves
    /\ src_ty = Never
    /\ tgt_ty = Never
    /\ depth = 0
    /\ arg = NoArg
    /\ out = NoOut
    /\ st = NoSt
    /\ ctx = NoCtx

ConstructTraits ==
    /\ op = "init"
    /\ depth + 1 < MaxDepth
    /\ ty' \in TraitWraps(ty)
    /\ depth' = depth + 1
    /\ UNCHANGED <<op, src_ty, tgt_ty, arg, out>>
    /\ UNCHANGED <<st, ctx>>

(* A recording visitor is run over the tree. *)
Visit ==
    /\ op = "init"
    /\ out' = Ok(visit_ty(ty))
    /\ op' = "visit_ty"
    /\ UNCHANGED <<ty, src_ty, tgt_ty, depth, arg>>
    /\ UNCHANGED <<st, ctx>>

(* A second, independent recording visitor is run over the same tree; the
   first trace is kept in arg. *)
VisitAgain ==
    /\ op = "visit_ty"
    /\ arg' = out.val
    /\ out' = Ok(visit_ty(ty))
    /\ op' = "visit_ty_twice"
    /\ UNCHANGED <<ty, src_ty, tgt_ty, depth>>
    /\ UNCHANGED <<st, ctx>>

---------------------------------------------------------------------------
(* Properties of the traversal. *)

(* The nodes of a tree, as pairs <<kind, value>>, and for each node the
   calls the recording visitor notes at the node itself. *)
NodesOf(kind, xs) == [i \in 1..Len(xs) |-> <<kind, xs[i]>>]

OwnCalls(n) ==
    CASE n[1] = "ty" ->
           << <<"visit_ty", n[2].tag>> >>
           \o (IF n[2].tag = "TypeVar" THEN << <<"visit_type_var_id", n[2].v>> >>
               ELSE <<>>)
      [] n[1] = "type_id" ->
           (CASE n[2][1] = "Adt" -> << <<"visit_type_decl_id", n[2][2]>> >>
              [] n[2][1] = "Assumed" -> << <<"visit_assumed_ty", n[2][2]>> >>
              [] OTHER -> <<>>)
      [] n[1] = "region" ->
           (IF n[2][1] = "Var" THEN << <<"visit_region_id", n[2][2]>> >> ELSE <<>>)
      [] n[1] = "const_generic" ->
           (CASE n[2][1] = "Global" -> << <<"visit_global_decl_id", n[2][2]>> >>
              [] n[2][1] = "Var" -> << <<"visit_const_generic_var_id", n[2][2]>> >>
              [] n[2][1] = "Value" -> << <<"visit_literal", n[2][2]>> >>)
      [] n[1] = "trait_decl_id" -> << <<"visit_trait_decl_id", n[2]>> >>
      [] n[1] = "trait_clause_id" -> << <<"visit_trait_clause_id", n[2]>> >>
      [] n[1] = "trait_instance_id" ->
           (CASE n[2][1] = "TraitImpl" -> << <<"visit_trait_impl_id", n[2][2]>> >>
              [] n[2][1] = "BuiltinOrAuto" -> << <<"visit_trait_decl_id", n[2][2]>> >>
              [] n[2][1] = "Clause" -> << <<"visit_trait_clause_id", n[2][2]>> >>
              [] OTHER -> <<>>)
      [] OTHER -> <<>>

(* The children of a node in the order the traversal is to follow: for Adt
   the type identifier then the generic-args, for TraitType the trait-ref then
   the generic-args, generic-args as regions, types, const-generics,
   trait-refs, for Ref the region then the pointee, for Arrow the inputs in
   declared order then the output.  A trait-ref is its instance id, its
   generic-args, its declaration reference. *)
ChildrenInOrder(n) ==
    CASE n[1] = "ty" ->
           (CASE n[2].tag = "Adt" -> << <<"type_id", n[2].id>>, <<"generic_args", n[2].args>> >>
              [] n[2].tag = "TraitType" ->
                   << <<"trait_ref", n[2].tref>>, <<"generic_args", n[2].args>> >>
              [] n[2].tag = "Ref" -> << <<"region", n[2].r>>, <<"ty", n[2].ty>> >>
              [] n[2].tag = "RawPtr" -> << <<"ty", n[2].ty>> >>
              [] n[2].tag = "Arrow" ->
                   NodesOf("ty", n[2].inputs) \o << <<"ty", n[2].output>> >>
              [] OTHER -> <<>>)
      [] n[1] = "generic_args" ->
           NodesOf("region", n[2].regions) \o NodesOf("ty", n[2].types)
           \o NodesOf("const_generic", n[2].const_generics)
           \o NodesOf("trait_ref", n[2].trait_refs)
      [] n[1] = "trait_ref" ->
           << <<"trait_instance_id", n[2].trait_id>>, <<"generic_args", n[2].generics>>,
              <<"trait_decl_ref", n[2].trait_decl_ref>> >>
      [] n[1] = "trait_decl_ref" ->
           << <<"trait_decl_id", n[2].trait_id>>, <<"generic_args", n[2].generics>> >>
      [] n[1] = "trait_instance_id" ->
           (CASE n[2][1] = "ParentClause" ->
                   << <<"trait_instance_id", n[2][2]>>, <<"trait_decl_id", n[2][3]>>,
                      <<"trait_clause_id", n[2][4]>> >>
              [] n[2][1] = "ItemClause" ->
                   << <<"trait_instance_id", n[2][2]>>, <<"trait_decl_id", n[2][3]>>,
                      <<"trait_clause_id", n[2][5]>> >>
              [] n[2][1] = "FnPointer" -> << <<"ty", n[2][2]>> >>
              [] n[2][1] = "Unsolved" ->
                   << <<"trait_decl_id", n[2][2]>>, <<"generic_args", n[2][3]>> >>
              [] OTHER -> <<>>)
      [] OTHER -> <<>>

(* The pre-order walk of the tree along ChildrenInOrder. *)
RECURSIVE PreOrder(_)
RECURSIVE PreOrderFrom(_, _)
PreOrderFrom(ns, i) ==
    IF i > Len(ns) THEN <<>> ELSE PreOrder(ns[i]) \o PreOrderFrom(ns, i + 1)
PreOrder(n) == OwnCalls(n) \o PreOrderFrom(ChildrenInOrder(n), 1)

(* C11: the default traversal visits the nodes in the fixed order of
   ChildrenInOrder, and two independent traversals of the same tree record
   identical traces. *)
C11_TraversalOrder ==
    /\ op \in {"visit_ty", "visit_ty_twice"} => out = Ok(PreOrder(<<"ty", ty>>))
    /\ op = "visit_ty_twice" => out.val = arg

C11_Witness ==
    /\ op = "visit_ty_twice"
    /\ ty.tag = "Adt"
    /\ ty.args.regions # <<>>
    /\ ty.args.types # <<>>
    /\ ty.args.const_generics # <<>>
    /\ ty.args.trait_refs # <<>>
    /\ out.val = arg
    /\ Len(out.val) > 8

---------------------------------------------------------------------------
(* TraitInstanceIdSelfReplacer: the mutable-borrow visitor MutTypeVisitor  *)
(* with its default methods, except visit_trait_instance_id.  A visit      *)
(* operator returns the tree the visitor leaves behind.                     *)

RECURSIVE SelfReplacer_visit_ty(_, _)
RECURSIVE SelfReplacer_visit_generic_args(_, _)
RECURSIVE SelfReplacer_visit_trait_ref(_, _)
RECURSIVE SelfReplacer_visit_trait_instance_id(_, _)

(* The override: SelfId is overwritten, the base of a ParentClause or
   ItemClause is visited, every other id is left alone. *)
SelfReplacer_visit_trait_instance_id(id, new_id) ==
    CASE id[1] = "SelfId" -> new_id
      [] id[1] = "ParentClause" ->
           ParentClause(SelfReplacer_visit_trait_instance_id(id[2], new_id), id[3], id[4])
      [] id[1] = "ItemClause" ->
           ItemClause(SelfReplacer_visit_trait_instance_id(id[2], new_id),
                      id[3], id[4], id[5])
      [] OTHER -> id

SelfReplacer_visit_trait_decl_ref(tr, new_id) ==
    TraitDeclRef(tr.trait_id, SelfReplacer_visit_generic_args(tr.generics, new_id))

SelfReplacer_visit_trait_ref(tr, new_id) ==
    TraitRef(SelfReplacer_visit_trait_instance_id(tr.trait_id, new_id),
             SelfReplacer_visit_generic_args(tr.generics, new_id),
             SelfReplacer_visit_trait_decl_ref(tr.trait_decl_ref, new_id))

SelfReplacer_visit_generic_args(g, new_id) ==
    GenericArgs_new(g.regions,
                    [i \in 1..Len(g.types) |-> SelfReplacer_visit_ty(g.types[i], new_id)],
                    g.const_generics,
                    [i \in 1..Len(g.trait_refs) |->
                        SelfReplacer_visit_trait_ref(g.trait_refs[i], new_id)])

SelfReplacer_visit_ty(t, new_id) ==
    CASE t.tag = "Adt" -> Adt(t.id, SelfReplacer_visit_generic_args(t.args, new_id))
      [] t.tag = "Ref" -> Ref(t.r, SelfReplacer_visit_ty(t.ty, new_id), t.kind)
      [] t.tag = "RawPtr" -> RawPtr(SelfReplacer_visit_ty(t.ty, new_id), t.kind)
      [] t.tag = "TraitType" ->
           TraitType(SelfReplacer_visit_trait_ref(t.tref, new_id),
                     SelfReplacer_visit_generic_args(t.args, new_id), t.name)
      [] t.tag = "Arrow" ->
           Arrow([i \in 1..Len(t.inputs) |-> SelfReplacer_visit_ty(t.inputs[i], new_id)],
                 SelfReplacer_visit_ty(t.output, new_id))
      [] OTHER -> t

(* The ids that replace SelfId: none contains SelfId. *)
NewIds == {ClauseId(1), ParentClause(TraitImpl(1), 0, 0)}

ReplaceSelf ==
    /\ op = "init"
    /\ \E new_id \in NewIds :
          /\ arg' = <<new_id>>
          /\ out' = Ok(SelfReplacer_visit_ty(ty, new_id))
    /\ op' = "replace_self"
    /\ UNCHANGED <<ty, src_ty, tgt_ty, depth>>
    /\ UNCHANGED <<st, ctx>>

ReplaceSelfArgs ==
    /\ op = "init"
    /\ ty.tag \in {"Adt", "TraitType"}
    /\ \E new_id \in NewIds :
          /\ arg' = <<new_id>>
          /\ out' = Ok(SelfReplacer_visit_generic_args(ty.args, new_id))
    /\ op' = "replace_self_args"
    /\ UNCHANGED <<ty, src_ty, tgt_ty, depth>>
    /\ UNCHANGED <<st, ctx>>

ReplaceSelfTraitRef ==
    /\ op = "init"
    /\ ty.tag = "TraitType"
    /\ \E new_id \in NewIds :
          /\ arg' = <<new_id>>
          /\ out' = Ok(SelfReplacer_visit_trait_ref(ty.tref, new_id))
    /\ op' = "replace_self_trait_ref"
    /\ UNCHANGED <<ty, src_ty, tgt_ty, depth>>
    /\ UNCHANGED <<st, ctx>>

(* SelfId occurs in the tree: as an instance id, as the base of a
   ParentClause or ItemClause, or in the type of a FnPointer or the
   generic-args of an Unsolved. *)
RECURSIVE SelfIdInTy(_)
RECURSIVE SelfIdInArgs(_)
RECURSIVE SelfIdInTraitRef(_)
RECURSIVE SelfIdInId(_)
SelfIdInId(id) ==
    CASE id[1] = "SelfId" -> TRUE
      [] id[1] \in {"ParentClause", "ItemClause"} -> SelfIdInId(id[2])
      [] id[1] = "FnPointer" -> SelfIdInTy(id[2])
      [] id[1] = "Unsolved" -> SelfIdInArgs(id[3])
      [] OTHER -> FALSE
SelfIdInTraitRef(tr) ==
    \/ SelfIdInId(tr.trait_id)
    \/ SelfIdInArgs(tr.generics)
    \/ SelfIdInArgs(tr.trait_decl_ref.generics)
SelfIdInArgs(g) ==
    \/ \E i \in 1..Len(g.types) : SelfIdInTy(g.types[i])
    \/ \E i \in 1..Len(g.trait_refs) : SelfIdInTraitRef(g.trait_refs[i])
SelfIdInTy(t) ==
    CASE t.tag = "Adt" -> SelfIdInArgs(t.args)
      [] t.tag \in {"Ref", "RawPtr"} -> SelfIdInTy(t.ty)
      [] t.tag = "TraitType" -> SelfIdInTraitRef(t.tref) \/ SelfIdInArgs(t.args)
      [] t.tag = "Arrow" ->
           (\E i \in 1..Len(t.inputs) : SelfIdInTy(t.inputs[i])) \/ SelfIdInTy(t.output)
      [] OTHER -> FALSE

(* C12: after the Self-replacing visitor has run over a Ty, a TraitRef or a
   GenericArgs with a new id that contains no SelfId, no SelfId remains
   anywhere in the tree, the types and generic-args carried by FnPointer and
   Unsolved instance ids included. *)
C12_NoSelfIdRemains ==
    /\ op = "replace_self" => ~ SelfIdInTy(out.val)
    /\ op = "replace_self_args" => ~ SelfIdInArgs(out.val)
    /\ op = "replace_self_trait_ref" => ~ SelfIdInTraitRef(out.val)

---------------------------------------------------------------------------

---------------------------------------------------------------------------
(* Properties of substitution on trees with trait references. *)

(* Every variable occurrence of a tree replaced through the three maps: the
   tree's own regions, type variables and const-generic variables, those of
   its generic-args and trait-refs, and those of the types and generic-args
   nested in its trait instance ids. *)
RECURSIVE ReplaceAllTy(_, _, _, _)
RECURSIVE ReplaceAllArgs(_, _, _, _)
RECURSIVE ReplaceAllTraitRef(_, _, _, _)
RECURSIVE ReplaceAllId(_, _, _, _)
ReplaceAllId(id, rsubst, tsubst, cgsubst) ==
    CASE id[1] = "ParentClause" ->
           ParentClause(ReplaceAllId(id[2], rsubst, tsubst, cgsubst), id[3], id[4])
      [] id[1] = "ItemClause" ->
           ItemClause(ReplaceAllId(id[2], rsubst, tsubst, cgsubst), id[3], id[4], id[5])
      [] id[1] = "FnPointer" -> FnPointer(ReplaceAllTy(id[2], rsubst, tsubst, cgsubst))
      [] id[1] = "Unsolved" ->
           Unsolved(id[2], ReplaceAllArgs(id[3], rsubst, tsubst, cgsubst))
      [] OTHER -> id
ReplaceAllTraitRef(tr, rsubst, tsubst, cgsubst) ==
    TraitRef(ReplaceAllId(tr.trait_id, rsubst, tsubst, cgsubst),
             ReplaceAllArgs(tr.generics, rsubst, tsubst, cgsubst),
             TraitDeclRef(tr.trait_decl_ref.trait_id,
                          ReplaceAllArgs(tr.trait_decl_ref.generics, rsubst, tsubst, cgsubst)))
ReplaceAllArgs(g, rsubst, tsubst, cgsubst) ==
    GenericArgs_new(
        [i \in 1..Len(g.regions) |-> rsubst[g.regions[i]]],
        [i \in 1..Len(g.types) |-> ReplaceAllTy(g.types[i], rsubst, tsubst, cgsubst)],
        [i \in 1..Len(g.const_generics) |->
            IF g.const_generics[i][1] = "Var" THEN cgsubst[g.const_generics[i][2]]
            ELSE g.const_generics[i]],
        [i \in 1..Len(g.trait_refs) |->
            ReplaceAllTraitRef(g.trait_refs[i], rsubst, tsubst, cgsubst)])
ReplaceAllTy(t, rsubst, tsubst, cgsubst) ==
    CASE t.tag = "TypeVar" -> tsubst[t.v]
      [] t.tag = "Adt" -> Adt(t.id, ReplaceAllArgs(t.args, rsubst, tsubst, cgsubst))
      [] t.tag = "Ref" ->
           Ref(rsubst[t.r], ReplaceAllTy(t.ty, rsubst, tsubst, cgsubst), t.kind)
      [] t.tag = "RawPtr" -> RawPtr(ReplaceAllTy(t.ty, rsubst, tsubst, cgsubst), t.kind)
      [] t.tag = "TraitType" ->
           TraitType(ReplaceAllTraitRef(t.tref, rsubst, tsubst, cgsubst),
                     ReplaceAllArgs(t.args, rsubst, tsubst, cgsubst), t.name)
      [] t.tag = "Arrow" ->
           Arrow([i \in 1..Len(t.inputs) |->
                     ReplaceAllTy(t.inputs[i], rsubst, tsubst, cgsubst)],
                 ReplaceAllTy(t.output, rsubst, tsubst, cgsubst))
      [] OTHER -> t

(* The variable v, of kind "type", "region" or "const", occurs in the tree. *)
OccursInTy(kind, v, t) ==
    \E i \in 1..Len(VarsOfTy(t)) : VarsOfTy(t)[i] = <<kind, v>>

(* C13: substitute replaces every variable occurrence: every type variable v
   occurring anywhere in t (generic-args, pointees, arrow inputs and outputs,
   trait-refs and the types nested in trait instance ids) by tsubst(v), every
   region r by rsubst(r), every const-generic variable c by cgsubst(c); so
   when tsubst maps every variable to a variable-free type, the result
   contains no type variable. *)
C13_SubstituteReplacesEveryOccurrence ==
    op = "substitute" =>
        /\ out = Ok(ReplaceAllTy(ty, arg.r, arg.t, arg.c))
        /\ arg = GroundMaps => \A v \in TypeVarIds : ~ OccursInTy("type", v, out.val)

---------------------------------------------------------------------------

(* C14: erase_regions substitutes every region occurrence with the erased
   marker: every region slot of erase_regions(t) (Ref regions and the regions
   lists of every generic-args, at any depth, those reached through trait-refs
   included) is Erased, and the type variables and const-generic variables
   are left as they were. *)
C14_EraseRegionsErasesEveryRegion ==
    op = "erase_regions" =>
        out = Ok(ReplaceAllTy(ty, EraseRegion, IdTypeVar, IdConstGeneric))

---------------------------------------------------------------------------

---------------------------------------------------------------------------
(* The substitutions through HashMaps.  A HashMap is a function; looking   *)
(* up a missing key and unwrapping panics, which leaves a panic marker in  *)
(* the tree: the call then ends in a panic.                                *)

RECURSIVE PanicInTy(_)
RECURSIVE PanicInArgs(_)
PanicInTraitRef(tr) ==
    PanicInArgs(tr.generics) \/ PanicInArgs(tr.trait_decl_ref.generics)
PanicInArgs(g) ==
    \/ \E i \in 1..Len(g.regions) : g.regions[i] = PanicRegion
    \/ \E i \in 1..Len(g.types) : PanicInTy(g.types[i])
    \/ \E i \in 1..Len(g.const_generics) : g.const_generics[i] = PanicConstGeneric
    \/ \E i \in 1..Len(g.trait_refs) : PanicInTraitRef(g.trait_refs[i])
PanicInTy(t) ==
    CASE t.tag = "Panic" -> TRUE
      [] t.tag = "Adt" -> PanicInArgs(t.args)
      [] t.tag = "Ref" -> t.r = PanicRegion \/ PanicInTy(t.ty)
      [] t.tag = "RawPtr" -> PanicInTy(t.ty)
      [] t.tag = "TraitType" -> PanicInTraitRef(t.tref) \/ PanicInArgs(t.args)
      [] t.tag = "Arrow" ->
           (\E i \in 1..Len(t.inputs) : PanicInTy(t.inputs[i])) \/ PanicInTy(t.output)
      [] OTHER -> FALSE

(* The outcome of a call of substitute whose closures may panic. *)
substitute_outcome(t, rsubst, tsubst, cgsubst) ==
    LET x == Ty_substitute(t, rsubst, tsubst, cgsubst)
    IN  IF PanicInTy(x) THEN Panic ELSE Ok(x)

substitute_types(t, subst, cgsubst) ==
    substitute_outcome(t, IdRegion, TypeSubst_get_unwrap(subst),
                       ConstGenericSubst_get_unwrap(cgsubst))

(* Faulty variant: the regions are kept. *)
erase_regions_substitute_types_keep(t, subst, cgsubst) ==
    substitute_outcome(t, IdRegion, TypeSubst_get_unwrap(subst),
                       ConstGenericSubst_get_unwrap(cgsubst))

erase_regions_substitute_types(t, subst, cgsubst) ==
    substitute_outcome(t, EraseRegion, TypeSubst_get_unwrap(subst),
                       ConstGenericSubst_get_unwrap(cgsubst))

(* The maps of a call: a type map over no variable, over variable 0 or over
   every variable, and a const-generic map over no or every variable.  The
   type bound to variable 0 holds a region. *)
TypeSubstOn(D) ==
    [v \in D |-> IF v = 0 THEN Ref(Static, Literal("Char"), "Shared")
                 ELSE Adt(TupleId, GenericArgs_new_from_types(<<Literal("Char")>>))]
ConstGenericSubstOn(D) == [c \in D |-> CGValue(7)]
HashMapChoices ==
    {[subst |-> TypeSubstOn(D), cgsubst |-> ConstGenericSubstOn(E)] :
        D \in {{}, {0}, TypeVarIds}, E \in {{}, ConstGenericVarIds}}

SubstituteTypes ==
    /\ op = "init"
    /\ \E m \in HashMapChoices :
          /\ arg' = m
          /\ out' = substitute_types(ty, m.subst, m.cgsubst)
    /\ op' = "substitute_types"
    /\ UNCHANGED <<ty, src_ty, tgt_ty, depth>>
    /\ UNCHANGED <<st, ctx>>

EraseRegionsSubstituteTypes ==
    /\ op = "init"
    /\ \E m \in HashMapChoices :
          /\ arg' = m
          /\ out' = erase_regions_substitute_types(ty, m.subst, m.cgsubst)
    /\ op' = "erase_regions_substitute_types"
    /\ UNCHANGED <<ty, src_ty, tgt_ty, depth>>
    /\ UNCHANGED <<st, ctx>>

(* substitute_types applied to the tree erase_regions returned. *)
SubstituteTypesOfErased ==
    /\ op = "erase_regions"
    /\ \E m \in HashMapChoices :
          /\ arg' = m
          /\ out' = substitute_types(out.val, m.subst, m.cgsubst)
    /\ op' = "erase_regions_then_substitute_types"
    /\ UNCHANGED <<ty, src_ty, tgt_ty, depth>>
    /\ UNCHANGED <<st, ctx>>

(* The maps have an entry for every type variable and const-generic variable
   of the tree. *)
Covers(t, subst, cgsubst) ==
    /\ \A v \in TypeVarIds : OccursInTy("type", v, t) => v \in DOMAIN subst
    /\ \A c \in ConstGenericVarIds : OccursInTy("const", c, t) => c \in DOMAIN cgsubst

(* C15: erase_regions_substitute_types composes the two derived operations:
   with maps s and cs that cover the variables of t,
   erase_regions_substitute_types(t, s, cs) equals
   substitute_types(erase_regions(t), s, cs). *)
C15_EraseSubstituteComposes ==
    /\ (op = "erase_regions_then_substitute_types" /\ Covers(ty, arg.subst, arg.cgsubst))
          => out = erase_regions_substitute_types(ty, arg.subst, arg.cgsubst)
    /\ (op = "erase_regions_substitute_types" /\ Covers(ty, arg.subst, arg.cgsubst))
          => out = substitute_types(erase_regions(ty), arg.subst, arg.cgsubst)

C15_Witness ==
    /\ op = "erase_regions_then_substitute_types"
    /\ Covers(ty, arg.subst, arg.cgsubst)
    /\ ty.tag = "Ref"
    /\ ty.r = RVar(0)
    /\ ty.ty = TypeVar(0)
    /\ out = Ok(Ref(Erased, Ref(Static, Literal("Char"), "Shared"), "Shared"))

---------------------------------------------------------------------------

---------------------------------------------------------------------------
(* substitute_regions_types: the region map is keyed by region ids. *)

RegionSubst_get_unwrap(rsubst) ==
    [r \in RegionSet |->
        IF r[1] = "Var"
        THEN IF r[2] \in DOMAIN rsubst THEN rsubst[r[2]] ELSE PanicRegion
        ELSE r]

substitute_regions_types(t, rsubst, tsubst) ==
    substitute_outcome(t, RegionSubst_get_unwrap(rsubst), TypeSubst_get_unwrap(tsubst),
                       IdConstGeneric)

RegionSubstOn(D) == [i \in D |-> IF i = 0 THEN Static ELSE RVar(0)]

RegionTypeMapChoices ==
    {[rsubst |-> RegionSubstOn(D), tsubst |-> TypeSubstOn(E)] :
        D \in {{}, RegionIds}, E \in {{}, TypeVarIds}}

SubstituteRegionsTypes ==
    /\ op = "init"
    /\ \E m \in RegionTypeMapChoices :
          /\ arg' = m
          /\ out' = substitute_regions_types(ty, m.rsubst, m.tsubst)
    /\ op' = "substitute_regions_types"
    /\ UNCHANGED <<ty, src_ty, tgt_ty, depth>>
    /\ UNCHANGED <<st, ctx>>

(* C16: substitute_regions_types renames every region variable through the
   region-id map and leaves the other regions (Static, erased) unchanged; it
   aborts exactly when some region variable occurring in the term has no entry
   in the region map. *)
C16_SubstituteRegionsTypesAbortsIffUnmapped ==
    op = "substitute_regions_types" =>
        IF \E i \in RegionIds : OccursInTy("region", i, ty) /\ i \notin DOMAIN arg.rsubst
        THEN out = Panic
        ELSE /\ out.tag = "Ok"
             /\ out.val = ReplaceAllTy(ty, RegionSubst_get_unwrap(arg.rsubst),
                                       TypeSubst_get_unwrap(arg.tsubst), IdConstGeneric)

(* C17: substitute_types and erase_regions_substitute_types abort when the
   type map or the const-generic map lacks an entry for a variable that
   occurs in the term, and never abort for a missing entry of a variable that
   does not occur in it. *)
C17_SubstituteTypesAbortsIffUncovered ==
    op \in {"substitute_types", "erase_regions_substitute_types"} =>
        (out = Panic <=> ~ Covers(ty, arg.subst, arg.cgsubst))

---------------------------------------------------------------------------

---------------------------------------------------------------------------
(* C19: a unification failure is a result, never an abort: every call of
   unify_args_with_fixed returns either Ok with a substitution (its four
   fields) or the failure value, which carries no partial mapping. *)
C19_UnifyReturnsOkOrBareErr ==
    Unified =>
        \/ out = Err /\ DOMAIN out = {"tag"}
        \/ /\ out.tag = "Ok"
           /\ DOMAIN out.val = DOMAIN TySubst_new
           /\ arg.fixed_type_vars \subseteq DOMAIN out.val.type_vars_map
           /\ arg.fixed_const_generic_vars \subseteq DOMAIN out.val.const_generics_map

(* A call that fails after its first pair of types bound a variable. *)
C19_Witness ==
    /\ Unified
    /\ out = Err
    /\ Len(arg.src.types) = Len(arg.tgt.types)
    /\ Len(arg.src.types) >= 2
    /\ LET first == unify_args_with_fixed(arg.fixed_type_vars, arg.fixed_const_generic_vars,
                        GenericArgs_new_from_types(<<arg.src.types[1]>>),
                        GenericArgs_new_from_types(<<arg.tgt.types[1]>>))
       IN  /\ first.tag = "Ok"
           /\ DOMAIN first.val.type_vars_map # arg.fixed_type_vars

---------------------------------------------------------------------------

---------------------------------------------------------------------------
(* Regions are skipped by unify_args_with_fixed. *)

RegionVariantUnified == op = "unify_args_with_fixed_region_variant"

(* C18 as stated: two calls whose pairs differ in region slots only have
   the same outcome, both failing or both succeeding with identical
   type-variable and const-generic bindings. *)
C18_RegionsNeverChangeTheOutcome ==
    RegionVariantUnified =>
        \/ out = Err /\ arg.first_out = Err
        \/ /\ out.tag = "Ok" /\ arg.first_out.tag = "Ok"
           /\ out.val.type_vars_map = arg.first_out.val.type_vars_map
           /\ out.val.const_generics_map = arg.first_out.val.const_generics_map

(* C18: two calls whose pairs differ in region slots only both fail or both
   succeed; on success the const-generic bindings are identical, the same
   type variables are bound, and each is bound to the same type up to the
   region slots of the bound target subterm; the type bindings are identical
   when the two targets are identical. *)
C18_RegionsChangeOnlyRegionsOfBindings ==
    RegionVariantUnified =>
        \/ out = Err /\ arg.first_out = Err
        \/ /\ out.tag = "Ok" /\ arg.first_out.tag = "Ok"
           /\ out.val.const_generics_map = arg.first_out.val.const_generics_map
           /\ DOMAIN out.val.type_vars_map = DOMAIN arg.first_out.val.type_vars_map
           /\ \A v \in DOMAIN out.val.type_vars_map :
                 WithRegionSlotsTy(out.val.type_vars_map[v], Erased, 0)
                    = WithRegionSlotsTy(arg.first_out.val.type_vars_map[v], Erased, 0)
           /\ arg.tgt = arg.first_call.tgt
                 => out.val.type_vars_map = arg.first_out.val.type_vars_map

(* Two successful calls whose targets differ in a region under a bound
   variable, and whose bindings differ there. *)
C18_Witness ==
    /\ RegionVariantUnified
    /\ out.tag = "Ok"
    /\ arg.first_out.tag = "Ok"
    /\ arg.src # arg.first_call.src
    /\ arg.tgt # arg.first_call.tgt
    /\ out.val.type_vars_map # arg.first_out.val.type_vars_map

---------------------------------------------------------------------------

---------------------------------------------------------------------------
(* The structural queries. An outcome is Ok(b), or Panic when an assert!   *)
(* fails.                                                                  *)

(* Faulty variant: every Box Adt is accepted. *)
is_box_unchecked(t) == Ok(t.tag = "Adt" /\ t.id = BoxId)

is_box(t) ==
    IF t.tag = "Adt" /\ t.id = BoxId
    THEN IF t.args.regions # <<>> THEN Panic
         ELSE IF Len(t.args.types) # 1 THEN Panic
         ELSE IF t.args.const_generics # <<>> THEN Panic
         ELSE Ok(TRUE)
    ELSE Ok(FALSE)

(* LiteralTy::is_integer: the literal is the Integer variant. *)
is_integer(lit) == lit \in IntegerTys

is_scalar(t) ==
    IF t.tag = "Literal" THEN is_integer(t.lit) ELSE FALSE

RECURSIVE contains_regions(_)
contains_regions(t) ==
    CASE t.tag = "TypeVar" -> FALSE
      [] t.tag \in {"Literal", "Never"} -> FALSE
      [] t.tag = "Ref" -> TRUE
      [] t.tag = "RawPtr" -> contains_regions(t.ty)
      [] t.tag \in {"TraitType", "Adt"} ->
           \/ t.args.regions # <<>>
           \/ \E i \in 1..Len(t.args.types) : contains_regions(t.args.types[i])
      [] t.tag = "Arrow" ->
           \/ \E i \in 1..Len(t.inputs) : contains_regions(t.inputs[i])
           \/ contains_regions(t.output)

(* Faulty variant: the inputs and the output of an Arrow are not searched. *)
RECURSIVE contains_never_outside_arrows(_)
contains_never_outside_arrows(t) ==
    CASE t.tag = "Never" -> TRUE
      [] t.tag \in {"TraitType", "Adt"} ->
           \E i \in 1..Len(t.args.types) : contains_never_outside_arrows(t.args.types[i])
      [] t.tag \in {"Ref", "RawPtr"} -> contains_never_outside_arrows(t.ty)
      [] OTHER -> FALSE

RECURSIVE contains_never(_)
contains_never(t) ==
    CASE t.tag = "Never" -> TRUE
      [] t.tag \in {"TraitType", "Adt"} ->
           \E i \in 1..Len(t.args.types) : contains_never(t.args.types[i])
      [] t.tag \in {"TypeVar", "Literal"} -> FALSE
      [] t.tag \in {"Ref", "RawPtr"} -> contains_never(t.ty)
      [] t.tag = "Arrow" ->
           \/ \E i \in 1..Len(t.inputs) : contains_never(t.inputs[i])
           \/ contains_never(t.output)

IsBox ==
    /\ op = "init"
    /\ out' = is_box(ty)
    /\ op' = "is_box"
    /\ UNCHANGED <<ty, src_ty, tgt_ty, depth, arg>>
    /\ UNCHANGED <<st, ctx>>

IsScalar ==
    /\ op = "init"
    /\ out' = Ok(is_scalar(ty))
    /\ op' = "is_scalar"
    /\ UNCHANGED <<ty, src_ty, tgt_ty, depth, arg>>
    /\ UNCHANGED <<st, ctx>>

ContainsRegions ==
    /\ op = "init"
    /\ out' = Ok(contains_regions(ty))
    /\ op' = "contains_regions"
    /\ UNCHANGED <<ty, src_ty, tgt_ty, depth, arg>>
    /\ UNCHANGED <<st, ctx>>

ContainsNever ==
    /\ op = "init"
    /\ out' = Ok(contains_never(ty))
    /\ op' = "contains_never"
    /\ UNCHANGED <<ty, src_ty, tgt_ty, depth, arg>>
    /\ UNCHANGED <<st, ctx>>

Queries == {"is_unit", "is_box", "is_scalar", "contains_region_var",
            "contains_variables", "contains_regions", "contains_never"}

IsBoxAdt(t) == t.tag = "Adt" /\ t.id = BoxId

(* C20 as stated: every structural query returns a boolean without aborting
   on every Ty, tuple and Box Adts whose generic-args carry regions or const
   generics included. *)
C20_QueriesAreTotal ==
    op \in Queries => out.tag = "Ok" /\ out.val \in BOOLEAN

(* C20: is_scalar, contains_region_var, contains_variables, contains_regions
   and contains_never return a boolean on every Ty; is_unit aborts exactly on
   the tuple Adts whose generic-args carry a region or a const generic, and
   is_box exactly on the Box Adts whose generic-args carry a region, a const
   generic or a number of types other than one; on every other Ty they
   return a boolean. *)
C20_QueriesAreTotalButIsUnitAndIsBox ==
    op \in Queries =>
        IF \/ /\ op = "is_unit"
              /\ IsTuple(ty)
              /\ (ty.args.regions # <<>> \/ ty.args.const_generics # <<>>)
           \/ /\ op = "is_box"
              /\ IsBoxAdt(ty)
              /\ \/ ty.args.regions # <<>>
                 \/ ty.args.const_generics # <<>>
                 \/ Len(ty.args.types) # 1
        THEN out = Panic
        ELSE out.tag = "Ok" /\ out.val \in BOOLEAN

(* is_box on a Box Adt that carries a const generic. *)
C20_Witness ==
    /\ op = "is_box"
    /\ IsBoxAdt(ty)
    /\ ty.args.regions = <<>>
    /\ Len(ty.args.types) = 1
    /\ ty.args.const_generics # <<>>
    /\ out = Panic

---------------------------------------------------------------------------

---------------------------------------------------------------------------
(* Further properties of unification. *)

(* C23: unification recurses through every constructor with equal heads: on
   a variable-free GenericArgs G as both source and target, with no fixed
   variables, unify_args_with_fixed succeeds and binds no type or
   const-generic variable. *)
C23_GroundUnifiesWithItself ==
    (Unified /\ NoFixed /\ Ground(arg.src) /\ arg.tgt = arg.src) =>
        /\ out.tag = "Ok"
        /\ out.val.type_vars_map = <<>>
        /\ out.val.const_generics_map = <<>>

(* The outcome of the same call on the types lists alone: what is bound when
   the const generics of the top level are reached. *)
TypesOnly(g) == GenericArgs_new_from_types(g.types)
BeforeConstGenerics ==
    unify_args_with_fixed(arg.fixed_type_vars, arg.fixed_const_generic_vars,
                          TypesOnly(arg.src), TypesOnly(arg.tgt))

(* C26: const-generic unification: a source Var(c) that is not yet bound is
   bound to the target whatever it is; a source Global(g) unifies only with
   the target Global(g) and a source Value(x) only with the target Value(x);
   every other combination fails, a non-variable source against a target
   variable included. *)
C26_ConstGenericDiscipline ==
    (/\ Unified
     /\ Len(arg.src.const_generics) = 1
     /\ Len(arg.tgt.const_generics) = 1
     /\ BeforeConstGenerics.tag = "Ok") =>
        LET a == arg.src.const_generics[1]
            b == arg.tgt.const_generics[1]
            before == BeforeConstGenerics.val
        IN  IF a[1] = "Var"
            THEN IF a[2] \in DOMAIN before.const_generics_map
                 THEN out = Err
                 ELSE /\ out.tag = "Ok"
                      /\ out.val.const_generics_map
                            = (a[2] :> b) @@ before.const_generics_map
                      /\ out.val.type_vars_map = before.type_vars_map
            ELSE IF a = b
                 THEN out = Ok(before)
                 ELSE out = Err

(* A source variable bound to a target variable, and the three failures. *)
C26_Witness ==
    /\ Unified /\ NoFixed
    /\ arg.src.const_generics = <<CGVar(1)>>
    /\ arg.tgt.const_generics = <<CGVar(0)>>
    /\ out.tag = "Ok"
    /\ out.val.const_generics_map[1] = CGVar(0)

(* C27: a fixed variable matches itself: with v among the fixed type
   variables, a source that has TypeVar(v) where the target has TypeVar(v),
   everything else matching, unifies, and v is bound to TypeVar(v); likewise
   for a fixed const-generic variable. *)
C27_FixedVariableMatchesItself ==
    Unified =>
        /\ \A v \in arg.fixed_type_vars :
              (/\ arg.src = GenericArgs_new_from_types(<<TypeVar(v)>>)
               /\ arg.tgt = arg.src) =>
                  out.tag = "Ok" /\ out.val.type_vars_map[v] = TypeVar(v)
        /\ \A c \in arg.fixed_const_generic_vars :
              (/\ arg.src = GenericArgs_new(<<>>, <<Never>>, <<CGVar(c)>>, <<>>)
               /\ arg.tgt = arg.src) =>
                  out.tag = "Ok" /\ out.val.const_generics_map[c] = CGVar(c)

(* C28: on success the type-variable map has as its domain the fixed type
   variables and the type variables at the type positions of the source; a
   fixed variable v is bound to TypeVar(v) and every other variable to the
   target subterm at the position of its occurrence. *)
C28_BindingsAreTargetSubterms ==
    (Unified /\ out.tag = "Ok") =>
        LET S == Root(arg.src)
            T == Root(arg.tgt)
            M == out.val.type_vars_map
            P == {p \in Positions(S) : SubtermAt(S, p).tag = "TypeVar"}
        IN  /\ DOMAIN M = arg.fixed_type_vars \cup {SubtermAt(S, p).v : p \in P}
            /\ \A v \in arg.fixed_type_vars : M[v] = TypeVar(v)
            /\ \A p \in P : M[SubtermAt(S, p).v] = SubtermAt(T, p)

(* Two variables bound at different depths, one of them to a target that holds
   a region, next to a fixed variable. *)
C28_Witness ==
    /\ Unified
    /\ out.tag = "Ok"
    /\ arg.fixed_type_vars # {}
    /\ \E v \in DOMAIN out.val.type_vars_map :
          /\ v \notin arg.fixed_type_vars
          /\ out.val.type_vars_map[v].tag = "Ref"

---------------------------------------------------------------------------

---------------------------------------------------------------------------
(* The shape substitution keeps. *)

(* u has the shape of t: the same node everywhere t has no variable, lists of
   the same lengths, compared element by element in order. *)
RECURSIVE SameShapeTy(_, _)
RECURSIVE SameShapeArgs(_, _)
SameShapeConstGeneric(c, d) == c[1] = "Var" \/ d = c
SameShapeTraitRef(a, b) ==
    /\ b.trait_id = a.trait_id
    /\ SameShapeArgs(a.generics, b.generics)
    /\ b.trait_decl_ref.trait_id = a.trait_decl_ref.trait_id
    /\ SameShapeArgs(a.trait_decl_ref.generics, b.trait_decl_ref.generics)
SameShapeArgs(g, h) ==
    /\ Len(h.regions) = Len(g.regions)
    /\ Len(h.types) = Len(g.types)
    /\ \A i \in 1..Len(g.types) : SameShapeTy(g.types[i], h.types[i])
    /\ Len(h.const_generics) = Len(g.const_generics)
    /\ \A i \in 1..Len(g.const_generics) :
          SameShapeConstGeneric(g.const_generics[i], h.const_generics[i])
    /\ Len(h.trait_refs) = Len(g.trait_refs)
    /\ \A i \in 1..Len(g.trait_refs) : SameShapeTraitRef(g.trait_refs[i], h.trait_refs[i])
SameShapeTy(t, u) ==
    \/ t.tag = "TypeVar"
    \/ /\ u.tag = t.tag
       /\ CASE t.tag = "Adt" -> u.id = t.id /\ SameShapeArgs(t.args, u.args)
            [] t.tag = "Literal" -> u.lit = t.lit
            [] t.tag = "Ref" -> u.kind = t.kind /\ SameShapeTy(t.ty, u.ty)
            [] t.tag = "RawPtr" -> u.kind = t.kind /\ SameShapeTy(t.ty, u.ty)
            [] t.tag = "TraitType" ->
                 /\ u.name = t.name
                 /\ SameShapeTraitRef(t.tref, u.tref)
                 /\ SameShapeArgs(t.args, u.args)
            [] t.tag = "Arrow" ->
                 /\ Len(u.inputs) = Len(t.inputs)
                 /\ \A i \in 1..Len(t.inputs) : SameShapeTy(t.inputs[i], u.inputs[i])
                 /\ SameShapeTy(t.output, u.output)
            [] OTHER -> TRUE

(* C24: substitute preserves every non-variable node shape: the result has
   the same head constructor at every non-variable position, the same ADT
   type id, literal kind, reference kind, associated-item name and
   trait-instance id, and each of the four generic-args lists and each Arrow
   input list keeps its length and element order. *)
C24_SubstitutePreservesShape ==
    op = "substitute" => out.tag = "Ok" /\ SameShapeTy(ty, out.val)

(* A substitution that changes an Adt with all four lists filled. *)
C24_Witness ==
    /\ op = "substitute"
    /\ arg = GroundMaps
    /\ ty.tag = "Adt"
    /\ ty.args.regions # <<>>
    /\ ty.args.types # <<>> /\ ty.args.types[1].tag = "TypeVar"
    /\ ty.args.const_generics # <<>>
    /\ ty.args.trait_refs # <<>>
    /\ out.val # ty

---------------------------------------------------------------------------
(* C25: contains_never(t) is true iff a Never node occurs in the tree:
   directly, under a Ref or RawPtr pointee, in the types list of an Adt or
   TraitType generic-args, or in the inputs or the output of an Arrow. *)
C25_ContainsNeverIffOccurs ==
    op = "contains_never" =>
        out = Ok(\E p \in Positions(ty) : SubtermAt(ty, p) = Never)

(* Never among the inputs of an Arrow. *)
C25_Witness ==
    /\ op = "contains_never"
    /\ ty.tag = "Arrow"
    /\ \E i \in 1..Len(ty.inputs) : ty.inputs[i] = Never
    /\ out = Ok(TRUE)

---------------------------------------------------------------------------
(* C29: the result of erase_regions_substitute_types is fully region-erased:
   with covering maps, every region slot of the result is the erased marker,
   the region slots of the types inserted from the type map included. *)
C29_ResultIsRegionErased ==
    (op = "erase_regions_substitute_types" /\ Covers(ty, arg.subst, arg.cgsubst)) =>
        /\ out.tag = "Ok"
        /\ ReplaceAllTy(out.val, EraseRegion, IdTypeVar, IdConstGeneric) = out.val

---------------------------------------------------------------------------

---------------------------------------------------------------------------
(* BodyTransCtx (translate_ctx.rs): the variables of a body.  A            *)
(* MapGenerator is a record [map, counter]: insert(k) maps the key k to     *)
(* the next identifier.  A Vector is a sequence: identifier i is position   *)
(* i + 1.                                                                   *)

MaxPushes == 4

MapGenerator_new == [map |-> <<>>, counter |-> 0]
MapGenerator_insert(g, k) == [map |-> (k :> g.counter) @@ g.map, counter |-> g.counter + 1]

Vector_new == <<>>
Vector_insert(vec, id, x) == SubSeq(vec, 1, id) \o <<x>> \o SubSeq(vec, id + 1, Len(vec))

BodyTransCtx_new ==
    [region_vars |-> Vector_new, region_vars_map |-> MapGenerator_new,
     type_vars |-> Vector_new, type_vars_map |-> MapGenerator_new,
     vars |-> Vector_new, vars_map |-> MapGenerator_new,
     const_generic_vars |-> Vector_new, const_generic_vars_map |-> MapGenerator_new]

(* Each push returns [ctx, out]: the context it leaves and Ok(id) or Panic. *)
push_region(c, r) ==
    LET rid == c.region_vars_map.counter
        c1 == [c EXCEPT !.region_vars_map = MapGenerator_insert(@, r)]
    IN  IF rid # Len(c1.region_vars) THEN [ctx |-> c1, out |-> Panic]
        ELSE [ctx |-> [c1 EXCEPT !.region_vars =
                          Vector_insert(@, rid, [index |-> rid, name |-> r])],
              out |-> Ok(rid)]

push_type_var(c, rindex) ==
    LET var_id == c.type_vars_map.counter
        c1 == [c EXCEPT !.type_vars_map = MapGenerator_insert(@, rindex)]
    IN  IF var_id # Len(c1.type_vars) THEN [ctx |-> c1, out |-> Panic]
        ELSE [ctx |-> [c1 EXCEPT !.type_vars =
                          Vector_insert(@, var_id, [index |-> var_id, name |-> rindex])],
              out |-> Ok(var_id)]

push_var(c, rid) ==
    LET var_id == c.vars_map.counter
        c1 == [c EXCEPT !.vars_map = MapGenerator_insert(@, rid)]
    IN  IF var_id # Len(c1.vars) THEN [ctx |-> c1, out |-> Panic]
        ELSE [ctx |-> [c1 EXCEPT !.vars =
                          Vector_insert(@, var_id, [index |-> var_id, name |-> rid])],
              out |-> Ok(var_id)]

(* The identifier is compared with self.vars.len(). *)
push_const_generic_var(c, rid) ==
    LET var_id == c.const_generic_vars_map.counter
        c1 == [c EXCEPT !.const_generic_vars_map = MapGenerator_insert(@, rid)]
    IN  IF var_id # Len(c1.vars) THEN [ctx |-> c1, out |-> Panic]
        ELSE [ctx |-> [c1 EXCEPT !.const_generic_vars =
                          Vector_insert(@, var_id, [index |-> var_id, name |-> rid])],
              out |-> Ok(var_id)]

(* The source indices (rust regions, rust variable indices) of a body. *)
SourceIndices == 0..MaxLen

InitCtx ==
    /\ op = "new"
    /\ ctx = BodyTransCtx_new
    /\ ty = Never
    /\ src_ty = Never
    /\ tgt_ty = Never
    /\ depth = 0
    /\ arg = NoArg
    /\ out = NoOut
    /\ st = NoSt

(* A push of a source index that was not pushed before; nothing runs after
   a panic.  depth counts the pushes. *)
PushRegion ==
    /\ out # Panic
    /\ depth < MaxPushes
    /\ \E k \in SourceIndices \ DOMAIN ctx.region_vars_map.map :
          LET r == push_region(ctx, k)
          IN  /\ arg' = k
              /\ ctx' = r.ctx
              /\ out' = r.out
    /\ op' = "push_region"
    /\ depth' = depth + 1
    /\ UNCHANGED <<ty, src_ty, tgt_ty, st>>

PushTypeVar ==
    /\ out # Panic
    /\ depth < MaxPushes
    /\ \E k \in SourceIndices \ DOMAIN ctx.type_vars_map.map :
          LET r == push_type_var(ctx, k)
          IN  /\ arg' = k
              /\ ctx' = r.ctx
              /\ out' = r.out
    /\ op' = "push_type_var"
    /\ depth' = depth + 1
    /\ UNCHANGED <<ty, src_ty, tgt_ty, st>>

PushVar ==
    /\ out # Panic
    /\ depth < MaxPushes
    /\ \E k \in SourceIndices \ DOMAIN ctx.vars_map.map :
          LET r == push_var(ctx, k)
          IN  /\ arg' = k
              /\ ctx' = r.ctx
              /\ out' = r.out
    /\ op' = "push_var"
    /\ depth' = depth + 1
    /\ UNCHANGED <<ty, src_ty, tgt_ty, st>>

PushConstGenericVar ==
    /\ out # Panic
    /\ depth < MaxPushes
    /\ \E k \in SourceIndices \ DOMAIN ctx.const_generic_vars_map.map :
          LET r == push_const_generic_var(ctx, k)
          IN  /\ arg' = k
              /\ ctx' = r.ctx
              /\ out' = r.out
    /\ op' = "push_const_generic_var"
    /\ depth' = depth + 1
    /\ UNCHANGED <<ty, src_ty, tgt_ty, st>>

NextCtx ==
    \/ PushRegion
    \/ PushTypeVar
    \/ PushVar
    \/ PushConstGenericVar

SpecCtx == InitCtx /\ [][NextCtx]_vars

(* The identifiers of a vector are dense: the variable at position k (from
   0) has identifier k. *)
Dense(vec) == \A i \in 1..Len(vec) : vec[i].index = i - 1

(* C21: identifiers are dense and kind-specific: after any sequence of pushes
   of distinct source indices, no assertion has failed, and the k-th
   const-generic variable pushed has identifier k and stands at position k of
   const_generic_vars, however many variables of the other kinds were pushed;
   the same holds for the type variables and the regular variables. *)
C21_DenseKindSpecificIds ==
    op \in {"push_region", "push_type_var", "push_var", "push_const_generic_var"} =>
        /\ out # Panic
        /\ Dense(ctx.const_generic_vars)
        /\ Len(ctx.const_generic_vars) = ctx.const_generic_vars_map.counter
        /\ Dense(ctx.type_vars)
        /\ Len(ctx.type_vars) = ctx.type_vars_map.counter
        /\ Dense(ctx.vars)
        /\ Len(ctx.vars) = ctx.vars_map.counter

---------------------------------------------------------------------------

---------------------------------------------------------------------------
(* The simplification of checked binary operations (simplify_ops.rs).     *)
(* A place is a record [var_id, projection]; an operand is <<"Copy", p>>,  *)
(* <<"Move", p>> or <<"Constant", x>> with x a scalar; an rvalue and a      *)
(* statement are records whose field tag names the variant.  A check        *)
(* returns "true", "false" or "panic"; a simplification returns a           *)
(* statement, or Panic.                                                     *)

Place(var_id, projection) == [var_id |-> var_id, projection |-> projection]
FieldTuple2(i) == <<"Field", <<"Tuple", 2>>, i>>
Copy(p) == <<"Copy", p>>
Move(p) == <<"Move", p>>
Constant(x) == <<"Constant", x>>

BinaryOp(binop, op1, op2) == [tag |-> "BinaryOp", binop |-> binop, op1 |-> op1, op2 |-> op2]
Use(o) == [tag |-> "Use", operand |-> o]

Assign(p, rv) == [tag |-> "Assign", place |-> p, rv |-> rv]
StatementAssert(cond, expected) == [tag |-> "Assert", cond |-> cond, expected |-> expected]
Sequence(st1, st2) == [tag |-> "Sequence", st1 |-> st1, st2 |-> st2]
SwitchIf(o, st1, st2) == [tag |-> "Switch", operand |-> o, st1 |-> st1, st2 |-> st2]
Loop(body) == [tag |-> "Loop", body |-> body]
Nop == [tag |-> "Nop"]
Return == [tag |-> "Return"]

check_places_similar_but_last_proj_elem(place, pelem, full_place) ==
    IF /\ place.var_id = full_place.var_id
       /\ Len(place.projection) + 1 = Len(full_place.projection)
    THEN /\ \A i \in 1..Len(place.projection) :
               place.projection[i] = full_place.projection[i]
         /\ pelem = full_place.projection[Len(place.projection) + 1]
    ELSE FALSE

binop_requires_assert_after(binop) == binop \in {"Add", "Sub", "Mul", "Shl", "Shr"}
binop_requires_assert_before(binop) == binop \in {"Div", "Rem"}
binop_can_fail(binop) ==
    binop_requires_assert_after(binop) \/ binop_requires_assert_before(binop)

IsAssignBinaryOp(s) == s.tag = "Assign" /\ s.rv.tag = "BinaryOp"
IsAssertMove(s) == s.tag = "Assert" /\ s.cond[1] = "Move"

(* Panics unless the three statements match the pattern. *)
check_if_simplifiable_binop_then_assert(st1, st2, st3) ==
    IF /\ IsAssignBinaryOp(st1)
       /\ IsAssertMove(st2)
       /\ st3.tag = "Assign" /\ st3.rv.tag = "Use" /\ st3.rv.operand[1] = "Move"
    THEN IF ~ binop_requires_assert_after(st1.rv.binop) THEN "panic"
         ELSE IF st2.expected THEN "panic"
         ELSE IF ~ check_places_similar_but_last_proj_elem(
                      st1.place, FieldTuple2(1), st2.cond[2]) THEN "panic"
         ELSE IF ~ check_places_similar_but_last_proj_elem(
                      st1.place, FieldTuple2(0), st3.rv.operand[2]) THEN "panic"
         ELSE "true"
    ELSE "panic"

check_if_binop_then_assert(st1, st2, st3) ==
    IF IsAssignBinaryOp(st1) /\ binop_requires_assert_after(st1.rv.binop)
    THEN check_if_simplifiable_binop_then_assert(st1, st2, st3)
    ELSE "false"

(* Faulty variant: the destination of the first statement is kept. *)
simplify_binop_then_assert_into_tmp(st1, st2, st3) ==
    IF st1.tag = "Assign" /\ st2.tag = "Assert" /\ st3.tag = "Assign"
    THEN Assign(st1.place, st1.rv)
    ELSE Panic

simplify_binop_then_assert(st1, st2, st3) ==
    IF st1.tag = "Assign" /\ st2.tag = "Assert" /\ st3.tag = "Assign"
    THEN Assign(st3.place, st1.rv)
    ELSE Panic

IsEqZero(s) ==
    /\ IsAssignBinaryOp(s)
    /\ s.rv.binop = "Eq"
    /\ s.rv.op2[1] = "Constant"

check_if_simplifiable_assert_then_binop(st1, st2, st3) ==
    CASE /\ IsEqZero(st1) /\ st1.rv.op1[1] = "Copy"
         /\ IsAssertMove(st2)
         /\ IsAssignBinaryOp(st3) /\ st3.rv.op2[1] = "Move" ->
            IF ~ binop_requires_assert_before(st3.rv.binop) THEN "panic"
            ELSE IF st2.expected THEN "panic"
            ELSE IF st1.rv.op1[2] # st3.rv.op2[2] THEN "panic"
            ELSE IF st1.place # st2.cond[2] THEN "panic"
            ELSE IF st1.rv.op2[2] # 0 THEN "panic"
            ELSE "true"
      [] /\ IsEqZero(st1)
         /\ IsAssertMove(st2)
         /\ IsAssignBinaryOp(st3) ->
            IF ~ binop_requires_assert_before(st3.rv.binop) THEN "panic"
            ELSE IF st2.expected THEN "panic"
            ELSE IF st1.rv.op1[1] # "Constant" THEN "panic"
            ELSE IF st3.rv.op2 # st1.rv.op1 THEN "panic"
            ELSE IF st1.place # st2.cond[2] THEN "panic"
            ELSE IF st1.rv.op2[2] # 0 THEN "panic"
            ELSE "true"
      [] IsAssignBinaryOp(st3) /\ st3.rv.op2[1] = "Constant" ->
            IF st3.rv.op2[2] = 0 THEN "panic" ELSE "false"
      [] OTHER -> "panic"

check_if_assert_then_binop(st1, st2, st3) ==
    IF IsAssignBinaryOp(st3) /\ binop_requires_assert_before(st3.rv.binop)
    THEN check_if_simplifiable_assert_then_binop(st1, st2, st3)
    ELSE "false"

simplify_assert_then_binop(st1, st2, st3) == st3

(* Statement::Sequence(Box::new(a), Box::new(b)) after a and b were computed:
   a panic in either one is a panic of the whole. *)
SequenceOf(a, b) == IF a = Panic \/ b = Panic THEN Panic ELSE Sequence(a, b)

RECURSIVE simplify_st(_)
RECURSIVE simplify_st_seq(_, _, _, _)

(* st4 is NoSt for Option::None. *)
simplify_st_seq(st1, st2, st3, st4) ==
    LET c1 == check_if_binop_then_assert(st1, st2, st3)
        c2 == check_if_assert_then_binop(st1, st2, st3)
    IN  IF c1 = "panic" THEN Panic
        ELSE IF c1 = "true"
        THEN LET s == simplify_binop_then_assert(st1, st2, st3)
             IN  IF st4 # NoSt THEN SequenceOf(s, simplify_st(st4)) ELSE s
        ELSE IF c2 = "panic" THEN Panic
        ELSE IF c2 = "true"
        THEN LET s == simplify_assert_then_binop(st1, st2, st3)
             IN  IF st4 # NoSt THEN SequenceOf(s, simplify_st(st4)) ELSE s
        ELSE LET next_st == Sequence(st2, IF st4 # NoSt THEN Sequence(st3, st4) ELSE st3)
             IN  SequenceOf(simplify_st(st1), simplify_st(next_st))

simplify_st(s) ==
    CASE s.tag = "Assign" ->
           IF s.rv.tag = "BinaryOp" /\ binop_can_fail(s.rv.binop)
           THEN IF s.rv.binop \in {"Div", "Rem"}
                THEN IF s.rv.op2[1] # "Constant" THEN Panic
                     ELSE IF s.rv.op2[2] = 0 THEN Panic
                     ELSE s
                ELSE Panic
           ELSE s
      [] s.tag = "Switch" ->
           LET a == simplify_st(s.st1)
               b == simplify_st(s.st2)
           IN  IF a = Panic \/ b = Panic THEN Panic ELSE SwitchIf(s.operand, a, b)
      [] s.tag = "Loop" ->
           LET a == simplify_st(s.body)
           IN  IF a = Panic THEN Panic ELSE Loop(a)
      [] s.tag = "Sequence" ->
           IF s.st2.tag = "Sequence"
           THEN IF s.st2.st2.tag = "Sequence"
                THEN simplify_st_seq(s.st1, s.st2.st1, s.st2.st2.st1, s.st2.st2.st2)
                ELSE simplify_st_seq(s.st1, s.st2.st1, s.st2.st2, NoSt)
           ELSE SequenceOf(simplify_st(s.st1), simplify_st(s.st2))
      [] OTHER -> s

---------------------------------------------------------------------------
(* The statements the simplification is run on. *)

Local(i) == Place(i, <<>>)
Tmp == Local(1)
X == Local(2)
Y == Local(3)
Dest == Local(4)
TmpField(i) == Place(1, <<FieldTuple2(i)>>)

CheckedBinOps == {"Add", "Sub", "Mul", "Shl", "Shr"}

(* tmp := copy x op copy y; assert(move tmp.1 == false); dest := move tmp.0 *)
CheckedBinOpGroup(binop) ==
    <<Assign(Tmp, BinaryOp(binop, Copy(X), Copy(Y))),
      StatementAssert(Move(TmpField(1)), FALSE),
      Assign(Dest, Use(Move(TmpField(0))))>>

(* tmp := copy y == 0; assert(move tmp == false); dest := move x / move y *)
DivisionGroup(binop) ==
    <<Assign(Tmp, BinaryOp("Eq", Copy(Y), Constant(0))),
      StatementAssert(Move(Tmp), FALSE),
      Assign(Dest, BinaryOp(binop, Move(X), Move(Y)))>>

(* Statements that need no simplification. *)
PlainStatements ==
    {Nop,
     Assign(X, Use(Copy(Y))),
     Assign(Dest, BinaryOp("BitAnd", Copy(X), Copy(Y))),
     Assign(Dest, BinaryOp("Div", Copy(X), Constant(2))),
     StatementAssert(Move(X), TRUE)}

StatementGroups ==
    {CheckedBinOpGroup(b) : b \in CheckedBinOps} \cup {DivisionGroup("Rem")}

(* The statement g[1]; g[2]; g[3] alone, and in front of s. *)
GroupAlone(g) == Sequence(g[1], Sequence(g[2], g[3]))
GroupThen(g, s) == Sequence(g[1], Sequence(g[2], Sequence(g[3], s)))

StatementLeaves ==
    {Nop, Return, Assign(X, Use(Copy(Y))),
     GroupAlone(CheckedBinOpGroup("Add")), GroupAlone(DivisionGroup("Div"))}

StatementWraps(s) ==
    {Sequence(p, s) : p \in PlainStatements}
    \cup {GroupThen(g, s) : g \in StatementGroups}
    \cup {Sequence(s, Return), Loop(s), SwitchIf(Copy(X), s, Nop)}

InitSimplify ==
    /\ op = "init"
    /\ st \in StatementLeaves
    /\ ty = Never
    /\ src_ty = Never
    /\ tgt_ty = Never
    /\ depth = 0
    /\ arg = NoArg
    /\ out = NoOut
    /\ ctx = NoCtx

ConstructStatement ==
    /\ op = "init"
    /\ depth < MaxDepth
    /\ st' \in StatementWraps(st)
    /\ depth' = depth + 1
    /\ UNCHANGED <<op, ty, src_ty, tgt_ty, arg, out, ctx>>

SimplifySt ==
    /\ op = "init"
    /\ out' = LET r == simplify_st(st) IN IF r = Panic THEN Panic ELSE Ok(r)
    /\ op' = "simplify_st"
    /\ UNCHANGED <<ty, src_ty, tgt_ty, depth, arg, st, ctx>>

(* The pass is run again on the statement it returned; the first result is
   kept in arg. *)
SimplifyStAgain ==
    /\ op = "simplify_st"
    /\ out.tag = "Ok"
    /\ arg' = out.val
    /\ out' = LET r == simplify_st(out.val) IN IF r = Panic THEN Panic ELSE Ok(r)
    /\ op' = "simplify_st_twice"
    /\ UNCHANGED <<ty, src_ty, tgt_ty, depth, st, ctx>>

NextSimplify ==
    \/ ConstructStatement
    \/ SimplifySt
    \/ SimplifyStAgain

SpecSimplify == InitSimplify /\ [][NextSimplify]_vars

---------------------------------------------------------------------------
(* Properties of the simplification. *)

(* The statements of a sequence, in order: the first components along the
   chain of second components. *)
RECURSIVE Items(_)
Items(s) == IF s.tag = "Sequence" THEN <<s.st1>> \o Items(s.st2) ELSE <<s>>

RECURSIVE Chain(_)
Chain(items) ==
    IF Len(items) = 1 THEN items[1] ELSE Sequence(items[1], Chain(Tail(items)))

IsCheckedGroup(a, b, c) ==
    /\ IsAssignBinaryOp(a) /\ a.rv.binop \in CheckedBinOps
    /\ b = StatementAssert(Move(Place(a.place.var_id, a.place.projection \o <<FieldTuple2(1)>>)),
                           FALSE)
    /\ c.tag = "Assign"
    /\ c.rv = Use(Move(Place(a.place.var_id, a.place.projection \o <<FieldTuple2(0)>>)))

IsDivisionGroup(a, b, c) ==
    /\ IsAssignBinaryOp(c) /\ c.rv.binop \in {"Div", "Rem"} /\ c.rv.op2[1] = "Move"
    /\ a.tag = "Assign" /\ a.rv = BinaryOp("Eq", Copy(c.rv.op2[2]), Constant(0))
    /\ b = StatementAssert(Move(a.place), FALSE)

(* The statement with every group collapsed, from left to right. *)
RECURSIVE Collapsed(_)
RECURSIVE CollapsedItems(_)
CollapsedItems(items) ==
    IF Len(items) >= 3 /\ IsCheckedGroup(items[1], items[2], items[3])
    THEN <<Assign(items[3].place, items[1].rv)>> \o
         (IF Len(items) = 3 THEN <<>> ELSE Items(Collapsed(Chain(SubSeq(items, 4, Len(items))))))
    ELSE IF Len(items) >= 3 /\ IsDivisionGroup(items[1], items[2], items[3])
    THEN <<items[3]>> \o
         (IF Len(items) = 3 THEN <<>> ELSE Items(Collapsed(Chain(SubSeq(items, 4, Len(items))))))
    ELSE IF Len(items) = 1 THEN <<Collapsed(items[1])>>
    ELSE <<Collapsed(items[1])>> \o CollapsedItems(Tail(items))
Collapsed(s) ==
    CASE s.tag = "Sequence" -> Chain(CollapsedItems(Items(s)))
      [] s.tag = "Loop" -> Loop(Collapsed(s.body))
      [] s.tag = "Switch" -> SwitchIf(s.operand, Collapsed(s.st1), Collapsed(s.st2))
      [] OTHER -> s

(* C22: simplify_st collapses every three-statement group
   tmp := a op b; assert(move tmp.1 == false); dest := move tmp.0 with op in
   Add, Sub, Mul, Shl, Shr into the single statement dest := a op b, drops the
   assert, and keeps the statements that follow the group, simplified, in
   their original order. *)
C22_CheckedBinOpGroupsCollapse ==
    op = "simplify_st" => out = Ok(Collapsed(st))

(* A group between two other statements. *)
C22_Witness ==
    /\ op = "simplify_st"
    /\ Len(Items(st)) >= 5
    /\ \E b \in CheckedBinOps :
          /\ IsCheckedGroup(Items(st)[2], Items(st)[3], Items(st)[4])
          /\ Items(st)[2].rv.binop = b
          /\ out.tag = "Ok"
          /\ Items(out.val)[2] = Assign(Dest, BinaryOp(b, Copy(X), Copy(Y)))
          /\ Len(Items(out.val)) = Len(Items(st)) - 2

(* C30: the simplification pass is idempotent: on the statement simplify_st
   returned, simplify_st returns again, and returns the same statement. *)
C30_SimplifyIsIdempotent ==
    op = "simplify_st_twice" => out = Ok(arg)

---------------------------------------------------------------------------
(* The specification of the operations on trees with trait references. *)

NextTraits ==
    \/ ConstructTraits
    \/ Visit
    \/ VisitAgain
    \/ ReplaceSelf
    \/ ReplaceSelfArgs
    \/ ReplaceSelfTraitRef
    \/ Substitute
    \/ EraseRegions
    \/ SubstituteTypes
    \/ EraseRegionsSubstituteTypes
    \/ SubstituteTypesOfErased
    \/ SubstituteRegionsTypes
    \/ IsUnit
    \/ IsBox
    \/ IsScalar
    \/ ContainsRegionVar
    \/ ContainsVariables
    \/ ContainsRegions
    \/ ContainsNever

SpecTraits == InitTraits /\ [][NextTraits]_vars

===========================================================================
